---- MODULE Spec2Model ----
(***************************************************************************)
(* Model of the PDF archive indexer: the SQLite store of                   *)
(* src/src/db_manager.py (pdf_metadata + the FTS5 table pdf_search_index), *)
(* the ingestion loop of src/filling_db.py, the retry run of               *)
(* src/retry_failed_pdfs.py, and the text functions of both (the sanitizer,*)
(* the ledger writers, the ledger parser) on sequences of code points.     *)
(*                                                                         *)
(* Python's None is the empty tuple <<>>, an optional value v is <<v>>.    *)
(* The metadata column holds JSON text: it is modelled as the set of       *)
(* <<key, json-literal>> pairs of the dumped object.                       *)
(***************************************************************************)
EXTENDS Integers, Sequences, FiniteSets, TLC

VARIABLES
    db,                 \* the committed database file: pdf_metadata, pdf_search_index, sqlite_sequence
    conn,               \* PDFArchiveDatabaseManager.conn is set (create_database_schema succeeded)
    now,                \* CURRENT_TIMESTAMP, advancing with every call on the store
    call,               \* the last completed call on the manager: its arguments, outcome and the store before it
    tree,               \* the source tree: containers in os.walk order, each with its namelist
    corrupt,            \* the documents PyPDF2 cannot read
    unopenable,         \* the containers zipfile.ZipFile cannot open
    pc,                 \* where process_zip_archives_to_sqlite stands: idle, walk or done
    ci,                 \* index of the current container of the walk
    di,                 \* index of the current document in it (0: container not opened yet)
    batch,              \* the in-memory batch of process_zip_archives_to_sqlite
    last_processed_pdf, \* the resume marker ("None" once cleared or absent)
    entity_count,       \* <<>> or <<n>>: the outstanding row count of the positional skip
    pdf_error,          \* the error ledger file pdf_error.txt, a sequence of entries
    extracted,          \* the documents the current run passed to the extraction backend, in order
    runs,               \* ingestion runs started so far
    resumed_after,      \* at the start of the run: k when the store held exactly the first k documents of the tree, else -1
    killed,             \* some ingestion run was terminated before its end
    lost,               \* the documents of batches that insert_pdf_contents_batch rolled back during a run
    raising,            \* the documents whose failure escapes extract_pdf_text_from_zip as an exception
    visited,            \* the documents the loop over pdf_files reached during the current run, in order
    attempted,          \* the containers the walk tried to open during the current run, in order
    escaped,            \* the documents whose processing raised into the handler of line 181 during the current run
    flushed,            \* the batches the current run passed to insert_pdf_contents_batch, in order
    failed_files,       \* retry_failed_pdfs.main: the triples parse_error_file returned
    successful_count,   \* retry_failed_pdfs.main: successful_count
    failed_retries,     \* retry_failed_pdfs.main: failed_retries
    retry_errors,       \* the output ledger retry_errors.txt: <<>> while the file does not exist, else <<entries>>
    retry_log,          \* what retry_failed_pdf did for each triple of the current retry run, in order
    fn,                 \* the functions applied to a text so far, in order
    arg,                \* the input of the first
    text,               \* the content of the ledger file
    returned,           \* the result of the last
    results,            \* search_database: the rows the query returned, by rank
    total_pages,        \* search_database: total_pages
    current_page,       \* search_database: current_page
    shown,              \* the ranks show_results_page printed last
    nav,                \* where search_database stands: query, paging or closed
    nav_choice,         \* the last navigation command read
    paths,              \* retry_failed_pdfs.main: the archive paths of failed_files
    marked,             \* the directories that hold an entry libgen.scimag
    root_directory,     \* retry_failed_pdfs.main: root_directory
    rc                  \* where the derivation stands: idle, ascend, derived or raised

storeVars == <<db, conn, now, call>>
walkVars == <<tree, corrupt, unopenable, pc, ci, di, batch, last_processed_pdf,
              entity_count, pdf_error, extracted, runs, resumed_after, killed, lost,
              raising, visited, attempted, escaped, flushed>>
retryVars == <<failed_files, successful_count, failed_retries, retry_errors, retry_log>>
textVars == <<fn, arg, text, returned>>
searchVars == <<results, total_pages, current_page, shown, nav, nav_choice>>
rootVars == <<paths, marked, root_directory, rc>>
vars == <<db, conn, now, call, tree, corrupt, unopenable, pc, ci, di, batch,
          last_processed_pdf, entity_count, pdf_error, extracted, runs, resumed_after,
          killed, lost, raising, visited, attempted, escaped, flushed,
          failed_files,
          successful_count, failed_retries, retry_errors, retry_log,
          fn, arg, text, returned,
          results, total_pages, current_page, shown, nav, nav_choice,
          paths, marked, root_directory, rc>>

----------------------------------------------------------------------------
(* Bounds of the model *)

\* longest batch handed to insert_pdf_contents_batch by a direct caller
MaxBatch == 2
\* number of insert calls on the store by a direct caller or by the retry runs
MaxClock == 2
\* the batch_size argument of process_zip_archives_to_sqlite (default 10)
BatchSize == 2
\* ingestion runs in the ingestion specification
MaxRuns == 2
\* longest namelist of a container of the source tree
MaxDocs == 2

None == <<>>
Some(v) == <<v>>

Pdfs == {"p.pdf", "q.pdf"}

\* json.dumps({"root_directory": root_directory})
IngestMeta == {<<"root_directory", "root">>}
\* json.dumps({"root_directory": root_directory, "retry": True})
RetryMeta == {<<"root_directory", "root">>, <<"retry", "true">>}

Item(z, p, t, m, s, n) ==
    [zip_path |-> z, pdf_filename |-> p, raw_text |-> t, metadata |-> m,
     file_size |-> s, pages_count |-> n]

\* the records a caller passes: the ingestion loop's (its metadata, the sizes the backend
\* returned) and the retry's (its own metadata, no sizes), each with a text of its own
Variants == {<<"alpha", IngestMeta, Some("1024"), Some("3")>>, <<"beta", RetryMeta, None, None>>}

Items == {Item("a.zip", p, v[1], v[2], v[3], v[4]) : p \in Pdfs, v \in Variants}

Batches == UNION {[1..n -> Items] : n \in 1..MaxBatch}

\* records with one of the two optional arguments only, as a direct caller of
\* insert_pdf_content can pass them
PartVariants ==
    {<<"alpha", IngestMeta, Some("1024"), None>>, <<"alpha", IngestMeta, None, Some("3")>>}

SingleItems ==
    Items \cup {Item("a.zip", p, v[1], v[2], v[3], v[4]) : p \in Pdfs, v \in PartVariants}

EmptyDb == [pdf_metadata |-> {}, pdf_search_index |-> {}, sqlite_sequence |-> 0]

----------------------------------------------------------------------------
(* The SQL statements of db_manager.py, on a database value d *)

\* base_metadata['file_size'] = file_size; base_metadata['pages_count'] = pages_count
MergeMetadata(base, file_size, pages_count) ==
    LET over == (IF file_size # None THEN {"file_size"} ELSE {})
                \cup (IF pages_count # None THEN {"pages_count"} ELSE {})
    IN {kv \in base : kv[1] \notin over}
       \cup (IF file_size # None THEN {<<"file_size", file_size[1]>>} ELSE {})
       \cup (IF pages_count # None THEN {<<"pages_count", pages_count[1]>>} ELSE {})

\* SELECT id FROM pdf_metadata WHERE zip_path = ? AND pdf_filename = ?
SelectId(d, z, p) ==
    {r.id : r \in {x \in d.pdf_metadata : x.zip_path = z /\ x.pdf_filename = p}}

\* INSERT OR REPLACE in place of INSERT OR IGNORE: the row is rewritten under a new id
InsertOrReplaceMetadata(d, z, p, m, ts) ==
    [d EXCEPT !.pdf_metadata =
                 {x \in @ : ~(x.zip_path = z /\ x.pdf_filename = p)}
                 \cup {[id |-> d.sqlite_sequence + 1, zip_path |-> z, pdf_filename |-> p,
                        metadata |-> m, created_at |-> ts]},
              !.sqlite_sequence = @ + 1]

\* INSERT OR IGNORE INTO pdf_metadata (zip_path, pdf_filename, metadata) VALUES (?, ?, ?)
\* id is AUTOINCREMENT: SQLite advances sqlite_sequence also when UNIQUE(zip_path,
\* pdf_filename) makes it ignore the row.
InsertOrIgnoreMetadata(d, z, p, m, ts) ==
    IF SelectId(d, z, p) # {}
    THEN [d EXCEPT !.sqlite_sequence = @ + 1]
    ELSE [d EXCEPT !.pdf_metadata =
                      @ \cup {[id |-> d.sqlite_sequence + 1, zip_path |-> z,
                               pdf_filename |-> p, metadata |-> m, created_at |-> ts]},
                   !.sqlite_sequence = @ + 1]

\* an index that accepts a second entry under an existing rowid
FtsInsertUnchecked(d, rowid, content) ==
    [err |-> FALSE,
     db |-> [d EXCEPT !.pdf_search_index = @ \cup {[rowid |-> rowid, content |-> content]}]]

\* INSERT INTO pdf_search_index(rowid, content) VALUES (?, ?)
\* FTS5 raises sqlite3.IntegrityError (constraint failed) on an existing rowid.
FtsInsert(d, rowid, content) ==
    IF \E e \in d.pdf_search_index : e.rowid = rowid
    THEN [err |-> TRUE, db |-> d]
    ELSE [err |-> FALSE,
          db |-> [d EXCEPT !.pdf_search_index = @ \cup {[rowid |-> rowid, content |-> content]}]]

\* INSERT OR REPLACE INTO pdf_search_index(rowid, content) VALUES (?, ?)
FtsInsertOrReplace(d, rowid, content) ==
    [d EXCEPT !.pdf_search_index =
                 {e \in @ : e.rowid # rowid} \cup {[rowid |-> rowid, content |-> content]}]

\* a rollback that keeps what the transaction wrote
RollbackKeeps(committed, working) == working

\* self.conn.rollback(): the database is what it was before the transaction
Rollback(committed, working) == committed

\* self.conn.commit()
Commit(committed, working) == working

----------------------------------------------------------------------------
(* The operations of PDFArchiveDatabaseManager.  Each yields the database    *)
(* after the call, whether it committed, whether it raised, and its result.  *)

Outcome(d, ok, raised, ret) == [db |-> d, ok |-> ok, raised |-> raised, ret |-> ret]

\* metadata_batch / executemany: the database after the first n rows were written
RECURSIVE MetadataWritten(_, _, _, _)
MetadataWritten(d, items, n, ts) ==
    IF n = 0 THEN d
    ELSE InsertOrIgnoreMetadata(
             MetadataWritten(d, items, n - 1, ts),
             items[n].zip_path, items[n].pdf_filename,
             MergeMetadata(items[n].metadata, items[n].file_size, items[n].pages_count), ts)

\* inserted_ids: the id found for every record of metadata_batch, present before or not
InsertedIds(d, items) ==
    LET Found(i) == SelectId(d, items[i].zip_path, items[i].pdf_filename)
        RECURSIVE Ids(_)
        Ids(n) == IF n = 0 THEN <<>>
                  ELSE IF Found(n) # {} THEN Append(Ids(n - 1), CHOOSE x \in Found(n) : TRUE)
                  ELSE Ids(n - 1)
    IN Ids(Len(items))

\* the loop over search_batch with the bound i + 1 < len(inserted_ids)
RECURSIVE SearchWrittenShort(_, _, _, _)
SearchWrittenShort(d, items, ids, n) ==
    IF n = 0 THEN [err |-> FALSE, db |-> d]
    ELSE LET r == SearchWrittenShort(d, items, ids, n - 1)
         IN IF r.err THEN r
            ELSE IF n < Len(ids) THEN FtsInsert(r.db, ids[n], items[n].raw_text)
            ELSE r

\* the loop over search_batch: stops at the first statement that raises
RECURSIVE SearchWritten(_, _, _, _)
SearchWritten(d, items, ids, n) ==
    IF n = 0 THEN [err |-> FALSE, db |-> d]
    ELSE LET r == SearchWritten(d, items, ids, n - 1)
         IN IF r.err THEN r
            ELSE IF n <= Len(ids) THEN FtsInsert(r.db, ids[n], items[n].raw_text)
            ELSE r

\* insert_pdf_contents_batch(batch).  fault < Len(items): the engine fails (disk, lock)
\* after writing `fault` metadata rows; otherwise the only failure is FTS5's own.
insert_pdf_contents_batch(d, items, fault, ts) ==
    IF fault < Len(items)
    THEN Outcome(Rollback(d, MetadataWritten(d, items, fault, ts)), FALSE, FALSE, "None")
    ELSE LET w == MetadataWritten(d, items, Len(items), ts)
             s == SearchWritten(w, items, InsertedIds(w, items), Len(items))
         IN IF s.err THEN Outcome(Rollback(d, s.db), FALSE, FALSE, "None")
            ELSE Outcome(Commit(d, s.db), TRUE, FALSE, "None")

\* a return value telling whether the row was new
ReturnsCreated(existed) == IF existed THEN "False" ELSE "True"

\* insert_pdf_content has no return statement: the caller gets None either way
InsertReturn(existed) == "None"

\* insert_pdf_content(...).  fault = 0: the engine fails before any write, 1: after the
\* metadata row, 2: no failure.  A failure is rolled back and raised again.
insert_pdf_content(d, item, fault, ts) ==
    LET existed == SelectId(d, item.zip_path, item.pdf_filename) # {}
        w1 == InsertOrIgnoreMetadata(d, item.zip_path, item.pdf_filename,
                  MergeMetadata(item.metadata, item.file_size, item.pages_count), ts)
        result == SelectId(w1, item.zip_path, item.pdf_filename)
        w2 == IF result # {}
              THEN FtsInsertOrReplace(w1, CHOOSE x \in result : TRUE, item.raw_text)
              ELSE w1
    IN IF fault = 0 THEN Outcome(Rollback(d, d), FALSE, TRUE, "None")
       ELSE IF fault = 1 THEN Outcome(Rollback(d, w1), FALSE, TRUE, "None")
       ELSE Outcome(Commit(d, w2), TRUE, FALSE, InsertReturn(existed))

\* a check that finds no record
never_exists(d, z, p) == FALSE

\* pdf_exists(zip_path, pdf_filename)
pdf_exists(d, z, p) == SelectId(d, z, p) # {}

\* ORDER BY id ASC: the record with the lowest row id
get_first_entry(d) ==
    IF d.pdf_metadata = {} THEN None
    ELSE LET row == CHOOSE r \in d.pdf_metadata : \A x \in d.pdf_metadata : r.id <= x.id
         IN Some([id |-> row.id, pdf_filename |-> row.pdf_filename])

\* get_last_entry(): SELECT id, pdf_filename FROM pdf_metadata ORDER BY id DESC LIMIT 1
get_last_entry(d) ==
    IF d.pdf_metadata = {} THEN None
    ELSE LET row == CHOOSE r \in d.pdf_metadata : \A x \in d.pdf_metadata : x.id <= r.id
         IN Some([id |-> row.id, pdf_filename |-> row.pdf_filename])

----------------------------------------------------------------------------
(* Calls on the manager by a direct caller *)

NoCall == [op |-> "none", items |-> <<>>, fault |-> 0, ok |-> FALSE, raised |-> FALSE,
           ret |-> "None", pre |-> EmptyDb]

Called(op, items, fault, o, pre) ==
    [op |-> op, items |-> items, fault |-> fault, ok |-> o.ok, raised |-> o.raised,
     ret |-> o.ret, pre |-> pre]

\* the call is answered as if nothing were wrong
Unguarded(d) == Outcome(d, TRUE, FALSE, "None")

\* RuntimeError("Database connection not established...")
NotConnected(d) == Outcome(d, FALSE, TRUE, "None")

\* DROP TABLE before CREATE TABLE: the schema is created anew
CreateAnew(d) == EmptyDb

\* CREATE TABLE / VIRTUAL TABLE / INDEX ... IF NOT EXISTS: a table that exists is left
\* as it is, with its rows
CreateIfNotExists(d) == d

\* create_database_schema(): connected says whether sqlite3.connect succeeded; a
\* sqlite3.Error is printed and None is returned
create_database_schema(d, connected) ==
    IF connected THEN Outcome(Commit(d, CreateIfNotExists(d)), TRUE, FALSE, "conn")
    ELSE Outcome(d, FALSE, FALSE, "None")

CreateDatabaseSchema ==
    /\ pc = "idle"
    /\ \E connected \in BOOLEAN :
          LET o == create_database_schema(db, connected)
          IN /\ conn' = (conn \/ connected)
             /\ db' = o.db
             /\ call' = Called("create_database_schema", <<>>, 0, o, db)
    /\ UNCHANGED now
    /\ UNCHANGED walkVars
    /\ UNCHANGED retryVars
    /\ UNCHANGED textVars
    /\ UNCHANGED <<searchVars, rootVars>>

InsertBatch ==
    /\ pc = "idle"
    /\ now < MaxClock
    /\ \E items \in Batches : \E fault \in 0..Len(items) :
          LET o == IF conn THEN insert_pdf_contents_batch(db, items, fault, now)
                   ELSE NotConnected(db)
          IN /\ db' = o.db
             /\ call' = Called("insert_batch", items, fault, o, db)
    /\ now' = now + 1
    /\ UNCHANGED conn
    /\ UNCHANGED walkVars
    /\ UNCHANGED retryVars
    /\ UNCHANGED textVars
    /\ UNCHANGED <<searchVars, rootVars>>

InsertOne ==
    /\ pc = "idle"
    /\ now < MaxClock
    /\ \E item \in SingleItems : \E fault \in 0..2 :
          LET o == IF conn THEN insert_pdf_content(db, item, fault, now)
                   ELSE NotConnected(db)
          IN /\ db' = o.db
             /\ call' = Called("insert_one", <<item>>, fault, o, db)
    /\ now' = now + 1
    /\ UNCHANGED conn
    /\ UNCHANGED walkVars
    /\ UNCHANGED retryVars
    /\ UNCHANGED textVars
    /\ UNCHANGED <<searchVars, rootVars>>

\* get_last_entry() by a direct caller; without a connection self.cursor is None and
\* the call raises AttributeError, which `except sqlite3.Error` does not catch
GetLastEntry ==
    /\ pc = "idle"
    /\ LET o == IF conn THEN Outcome(db, TRUE, FALSE, get_last_entry(db))
                ELSE NotConnected(db)
       IN call' = Called("get_last_entry", <<>>, 0, o, db)
    /\ UNCHANGED <<db, conn, now>>
    /\ UNCHANGED walkVars
    /\ UNCHANGED retryVars
    /\ UNCHANGED textVars
    /\ UNCHANGED <<searchVars, rootVars>>

\* pdf_exists() by a direct caller: RuntimeError without a connection (lines 236-237);
\* a sqlite3.Error in the SELECT is printed and answered with False
PdfExists ==
    /\ pc = "idle"
    /\ \E item \in Items : \E fault \in 0..1 :
          LET found == fault = 0 /\ pdf_exists(db, item.zip_path, item.pdf_filename)
              o == IF conn
                   THEN Outcome(db, TRUE, FALSE, IF found THEN "True" ELSE "False")
                   ELSE NotConnected(db)
          IN call' = Called("pdf_exists", <<>>, fault, o, db)
    /\ UNCHANGED <<db, conn, now>>
    /\ UNCHANGED walkVars
    /\ UNCHANGED retryVars
    /\ UNCHANGED textVars
    /\ UNCHANGED <<searchVars, rootVars>>

\* a tree for the store specification, which never walks it
NoTree == <<>>

\* no retry run was started and no output ledger exists
InitRetryVars ==
    /\ failed_files = <<>>
    /\ successful_count = 0
    /\ failed_retries = <<>>
    /\ retry_errors = None
    /\ retry_log = <<>>

\* no text function was applied
InitTextVars ==
    /\ fn = <<>>
    /\ arg = <<>>
    /\ text = <<>>
    /\ returned = <<>>

\* no search session was opened
InitSearchVars ==
    /\ results = <<>>
    /\ total_pages = 0
    /\ current_page = 0
    /\ shown = <<>>
    /\ nav = "closed"
    /\ nav_choice = ""

\* the path '': not absolute, no component
EmptyPath == [abs |-> FALSE, parts |-> <<>>]

\* no root directory is being derived
InitRootVars ==
    /\ paths = <<>>
    /\ marked = {}
    /\ root_directory = EmptyPath
    /\ rc = "idle"

Init ==
    /\ db = EmptyDb
    /\ conn = FALSE
    /\ now = 0
    /\ call = NoCall
    /\ tree = NoTree
    /\ corrupt = {}
    /\ unopenable = {}
    /\ pc = "idle"
    /\ ci = 0
    /\ di = 0
    /\ batch = <<>>
    /\ last_processed_pdf = "None"
    /\ entity_count = None
    /\ pdf_error = <<>>
    /\ extracted = <<>>
    /\ runs = 0
    /\ resumed_after = -1
    /\ killed = FALSE
    /\ lost = {}
    /\ raising = {}
    /\ visited = <<>>
    /\ attempted = <<>>
    /\ escaped = <<>>
    /\ flushed = <<>>
    /\ InitRetryVars
    /\ InitTextVars
    /\ InitSearchVars
    /\ InitRootVars

Next ==
    \/ CreateDatabaseSchema
    \/ InsertBatch
    \/ InsertOne
    \/ GetLastEntry
    \/ PdfExists

Spec == Init /\ [][Next]_vars

----------------------------------------------------------------------------
(* The ingestion run of filling_db.py over a source tree *)

\* names as zip_ref.namelist() gives them
DocNames == {"p.pdf", "q.pdf", "r.pdf"}

\* urllib.parse.unquote(pdf_filename): "%70.pdf" is the URL-quoted "p.pdf"
unquote(name) == IF name = "%70.pdf" THEN "p.pdf" ELSE name

\* os.path.relpath(zip_path, root_directory)
relpath(zip_path) ==
    IF zip_path = "root/a.zip" THEN "a.zip"
    ELSE IF zip_path = "root/b.zip" THEN "b.zip"
    ELSE zip_path

\* namelists: up to MaxDocs names, none twice
NameLists ==
    {l \in UNION {[1..n -> DocNames] : n \in 1..MaxDocs} :
        \A i, j \in 1..Len(l) : i # j => l[i] # l[j]}

\* the trees os.walk yields: root/a.zip, then root/b.zip
Trees ==
    {<<[zip_path |-> "root/a.zip", namelist |-> l1],
       [zip_path |-> "root/b.zip", namelist |-> l2]>> : l1, l2 \in NameLists}

DocsOf(t) ==
    UNION {{<<t[c].zip_path, t[c].namelist[d]>> : d \in 1..Len(t[c].namelist)} : c \in 1..Len(t)}

\* the documents of the tree in enumeration order, as (zip_path, name in the namelist)
RECURSIVE Flat(_, _)
Flat(t, c) ==
    IF c = 0 THEN <<>>
    ELSE Flat(t, c - 1) \o [d \in 1..Len(t[c].namelist) |-> <<t[c].zip_path, t[c].namelist[d]>>]

\* the key under which the ingestion run stores a document
StoreKey(doc) == <<relpath(doc[1]), unquote(doc[2])>>

\* extract_pdf_text_from_zip: (text, file_size, pages_count); an exception is caught
\* and answered with (error message, None, None)
extract_pdf_text_from_zip(zip_path, pdf_filename) ==
    IF <<zip_path, pdf_filename>> \in corrupt
    THEN <<"Error extracting text", None, None>>
    ELSE <<"alpha", Some("1024"), Some("3")>>

\* open(output_file, 'w'): the block replaces what the file held
write_to_file_truncating(ledger, error, zip_path, pdf_filename) ==
    <<[zip_path |-> zip_path, pdf_filename |-> pdf_filename, error |-> error]>>

\* write_to_file(error, zip_path, pdf_filename=''): open(output_file, 'a'), one block is
\* appended to pdf_error.txt
write_to_file(ledger, error, zip_path, pdf_filename) ==
    Append(ledger, [zip_path |-> zip_path, pdf_filename |-> pdf_filename, error |-> error])

\* k when the metadata table holds exactly the first k documents of the tree, the k-th
\* being the last row; -1 otherwise
CompletedThrough(d, t) ==
    LET f == Flat(t, Len(t))
        ks == {k \in 0..Len(f) :
                 /\ {<<x.zip_path, x.pdf_filename>> : x \in d.pdf_metadata}
                       = {StoreKey(f[i]) : i \in 1..k}
                 /\ Cardinality(d.pdf_metadata) = k
                 /\ k > 0 => /\ get_last_entry(d) # None
                             /\ get_last_entry(d)[1].pdf_filename = unquote(f[k][2])}
    IN IF ks = {} THEN -1 ELSE CHOOSE k \in ks : TRUE

\* the exception of the backend escapes extract_pdf_text_from_zip: the print of its
\* handler (line 93) cannot encode the message
Raises(zip_path, pdf_filename) == <<zip_path, pdf_filename>> \in raising

\* the position of the loops after the document at (c, d)
NextDocument(c, d) ==
    IF d < Len(tree[c].namelist) THEN <<c, d + 1>> ELSE <<c + 1, 0>>

\* lines 181-183: except Exception as pdf_error: the error is printed and written to the
\* ledger, and the loop over pdf_files goes on
HandlePdfError(ledger, error, zip_path, pdf_filename, c, d) ==
    [pdf_error |-> write_to_file(ledger, error, zip_path, pdf_filename),
     next |-> NextDocument(c, d)]

\* the exception leaves the loop over the archives: the walk is over
ZipErrorAborts(ledger, error, zip_path, c) ==
    [pdf_error |-> write_to_file(ledger, error, zip_path, ""), next |-> <<Len(tree) + 1, 0>>]

\* lines 185-187: except Exception as zip_error: the error is printed and written to the
\* ledger without a document name, and the loop over the archives goes on
HandleZipError(ledger, error, zip_path, c) ==
    [pdf_error |-> write_to_file(ledger, error, zip_path, ""), next |-> <<c + 1, 0>>]

MoveTo(pos) ==
    /\ ci' = pos[1]
    /\ di' = pos[2]

\* a run goes on without looking at what create_database_schema returned
ProceedAnyway(connected, work) == work

\* main(): `if conn:` in filling_db.py, `if not conn: return` in retry_failed_pdfs.py;
\* the run does its work only when create_database_schema returned a connection
Proceed(connected, work) == IF connected THEN work ELSE "aborted"

\* main() and lines 119-134: a new process connects, reads the checkpoint and starts
\* the walk; what an earlier process held in memory is gone
StartRun ==
    /\ pc \in {"idle", "done", "retried", "aborted"}
    /\ runs < MaxRuns
    /\ \E connected \in BOOLEAN :
          LET o == create_database_schema(db, connected)
              last_entry == get_last_entry(o.db)
          IN /\ db' = o.db
             /\ conn' = o.ok
             /\ pc' = Proceed(o.ok, "walk")
             /\ IF o.ok
                THEN /\ last_processed_pdf' = IF last_entry # None
                                              THEN last_entry[1].pdf_filename ELSE "None"
                     /\ entity_count' = IF last_entry # None
                                        THEN Some(last_entry[1].id) ELSE None
                     /\ ci' = 1
                     /\ di' = 0
                     /\ resumed_after' = CompletedThrough(db, tree)
                ELSE UNCHANGED <<last_processed_pdf, entity_count, ci, di, resumed_after>>
    /\ batch' = <<>>
    /\ extracted' = <<>>
    /\ visited' = <<>>
    /\ attempted' = <<>>
    /\ escaped' = <<>>
    /\ flushed' = <<>>
    /\ runs' = runs + 1
    /\ failed_files' = <<>>
    /\ successful_count' = 0
    /\ failed_retries' = <<>>
    /\ retry_log' = <<>>
    /\ UNCHANGED <<now, call, tree, corrupt, unopenable, raising, pdf_error, killed, lost,
                   retry_errors>>
    /\ UNCHANGED textVars
    /\ UNCHANGED <<searchVars, rootVars>>

\* lines 144-153 and 185-187: open the next archive, skip it as a whole or enter it
OpenContainer ==
    /\ pc = "walk"
    /\ ci <= Len(tree)
    /\ di = 0
    /\ LET zip_path == tree[ci].zip_path
           total_pdfs == Len(tree[ci].namelist)
           h == HandleZipError(pdf_error, "zip_error", zip_path, ci)
       IN /\ attempted' = Append(attempted, zip_path)
          /\ IF zip_path \in unopenable
             THEN /\ pdf_error' = h.pdf_error
                  /\ MoveTo(h.next)
                  /\ UNCHANGED entity_count
             ELSE IF entity_count # None /\ entity_count[1] > total_pdfs
             THEN /\ entity_count' = Some(entity_count[1] - total_pdfs)
                  /\ ci' = ci + 1
                  /\ UNCHANGED <<di, pdf_error>>
             ELSE /\ di' = 1
                  /\ UNCHANGED <<ci, entity_count, pdf_error>>
    /\ UNCHANGED <<db, conn, now, call, tree, corrupt, unopenable, raising, pc, batch,
                   last_processed_pdf, extracted, visited, escaped, runs, resumed_after,
                   killed, lost, flushed>>
    /\ UNCHANGED retryVars
    /\ UNCHANGED textVars
    /\ UNCHANGED <<searchVars, rootVars>>

\* `if len(batch) > batch_size`: the batch is inserted one document late
BatchOverfull(b) == Len(b) > BatchSize

\* line 176: `if len(batch) >= batch_size`
BatchFull(b) == Len(b) >= BatchSize

\* the records of a batch that was rolled back stay in the batch
Requeued(items, ok) == IF ok THEN <<>> ELSE items

\* line 179: `batch = []` after insert_pdf_contents_batch returned, whatever it did
AfterFlush(items, ok) == <<>>

\* db_manager.insert_pdf_contents_batch(batch) as the run calls it
Flush(items, fault) ==
    LET o == insert_pdf_contents_batch(db, items, fault, now)
    IN /\ db' = o.db
       /\ now' = now + 1
       /\ call' = Called("insert_batch", items, fault, o, db)
       /\ lost' = IF o.ok THEN lost
                  ELSE lost \cup {<<items[i].zip_path, items[i].pdf_filename>> : i \in 1..Len(items)}
       /\ flushed' = Append(flushed,
                            [items |-> items, ok |-> o.ok,
                             had |-> {<<items[i].zip_path, items[i].pdf_filename>> :
                                         i \in {k \in 1..Len(items) :
                                                   pdf_exists(db, items[k].zip_path,
                                                              items[k].pdf_filename)}}])

\* the marker is taken for found from the start: no document is passed over
NeverPending(marker) == FALSE

\* lines 158 and 161: `if last_processed_pdf`: the marker read from the checkpoint has
\* not been found yet
Pending(marker) == marker # "None"

\* lines 155-183: one pass of the loop over pdf_files
ProcessDocument ==
    /\ pc = "walk"
    /\ ci <= Len(tree)
    /\ di >= 1
    /\ LET zip_path == tree[ci].zip_path
           pdf_filename == tree[ci].namelist[di]
           unicode_filename == unquote(pdf_filename)
           ext == extract_pdf_text_from_zip(zip_path, pdf_filename)
           appended == Append(batch, Item(relpath(zip_path), unicode_filename, ext[1],
                                          IngestMeta, ext[2], ext[3]))
           h == HandlePdfError(pdf_error, "pdf_error", zip_path, pdf_filename, ci, di)
       IN /\ visited' = Append(visited, <<zip_path, pdf_filename>>)
          /\ IF Pending(last_processed_pdf) /\ unicode_filename = last_processed_pdf
             THEN /\ last_processed_pdf' = "None"
                  /\ MoveTo(NextDocument(ci, di))
                  /\ UNCHANGED <<db, now, call, batch, extracted, lost, flushed, pdf_error,
                                 escaped>>
             ELSE IF Pending(last_processed_pdf)
             THEN /\ MoveTo(NextDocument(ci, di))
                  /\ UNCHANGED <<db, now, call, batch, extracted, lost, flushed, pdf_error,
                                 escaped,
                                 last_processed_pdf>>
             ELSE IF Raises(zip_path, pdf_filename)
             THEN /\ extracted' = Append(extracted, <<zip_path, pdf_filename>>)
                  /\ escaped' = Append(escaped, <<zip_path, pdf_filename>>)
                  /\ pdf_error' = h.pdf_error
                  /\ MoveTo(h.next)
                  /\ UNCHANGED <<db, now, call, batch, lost, flushed, last_processed_pdf>>
             ELSE /\ extracted' = Append(extracted, <<zip_path, pdf_filename>>)
                  /\ IF BatchFull(appended)
                     THEN /\ \E fault \in 0..Len(appended) : Flush(appended, fault)
                          /\ batch' = AfterFlush(appended, flushed'[Len(flushed')].ok)
                     ELSE /\ batch' = appended
                          /\ UNCHANGED <<db, now, call, lost, flushed>>
                  /\ MoveTo(NextDocument(ci, di))
                  /\ UNCHANGED <<last_processed_pdf, pdf_error, escaped>>
    /\ UNCHANGED <<conn, tree, corrupt, unopenable, raising, pc, entity_count, attempted,
                   runs, resumed_after, killed>>
    /\ UNCHANGED retryVars
    /\ UNCHANGED textVars
    /\ UNCHANGED <<searchVars, rootVars>>

\* lines 189-196: the walk is over, the remaining batch is inserted
FinishRun ==
    /\ pc = "walk"
    /\ ci > Len(tree)
    /\ IF batch # <<>>
       THEN \E fault \in 0..Len(batch) : Flush(batch, fault)
       ELSE UNCHANGED <<db, now, call, lost, flushed>>
    /\ pc' = "done"
    /\ UNCHANGED <<conn, tree, corrupt, unopenable, raising, ci, di, batch,
                   last_processed_pdf, entity_count, pdf_error, extracted, visited,
                   attempted, escaped, runs, resumed_after, killed>>
    /\ UNCHANGED retryVars
    /\ UNCHANGED textVars
    /\ UNCHANGED <<searchVars, rootVars>>

\* the process is terminated during the walk: the in-memory batch is gone, the
\* database keeps what was committed
Terminate ==
    /\ pc = "walk"
    /\ pc' = "idle"
    /\ batch' = <<>>
    /\ killed' = TRUE
    /\ UNCHANGED <<db, conn, now, call, tree, corrupt, unopenable, raising, ci, di,
                   last_processed_pdf, entity_count, pdf_error, extracted, visited,
                   attempted, escaped, runs, resumed_after, lost, flushed>>
    /\ UNCHANGED retryVars
    /\ UNCHANGED textVars
    /\ UNCHANGED <<searchVars, rootVars>>

InitIngest ==
    /\ db = EmptyDb
    /\ conn = FALSE
    /\ now = 0
    /\ call = NoCall
    /\ tree \in Trees
    /\ \/ corrupt = {} /\ unopenable = {} /\ raising = {}
       \/ \E doc \in DocsOf(tree) : corrupt = {doc} /\ unopenable = {} /\ raising = {}
       \/ \E doc \in DocsOf(tree) : corrupt = {} /\ unopenable = {} /\ raising = {doc}
       \/ \E c \in 1..Len(tree) : corrupt = {} /\ unopenable = {tree[c].zip_path} /\ raising = {}
    /\ pc = "idle"
    /\ ci = 0
    /\ di = 0
    /\ batch = <<>>
    /\ last_processed_pdf = "None"
    /\ entity_count = None
    /\ pdf_error = <<>>
    /\ extracted = <<>>
    /\ runs = 0
    /\ resumed_after = -1
    /\ killed = FALSE
    /\ lost = {}
    /\ visited = <<>>
    /\ attempted = <<>>
    /\ escaped = <<>>
    /\ flushed = <<>>
    /\ InitRetryVars
    /\ InitTextVars
    /\ InitSearchVars
    /\ InitRootVars

NextIngest ==
    \/ StartRun
    \/ OpenContainer
    \/ ProcessDocument
    \/ FinishRun
    \/ Terminate

SpecIngest == InitIngest /\ [][NextIngest]_vars

\* a run that is not terminated from outside goes on: the loops of
\* process_zip_archives_to_sqlite wait for nothing
\* the archives whose namelist is in the order of the names
NameOrder == <<"p.pdf", "q.pdf", "r.pdf">>

NameRank(name) == CHOOSE i \in 1..Len(NameOrder) : NameOrder[i] = name

InOrder(l) == \A i, j \in 1..Len(l) : i < j => NameRank(l[i]) < NameRank(l[j])

\* the runs whose end is checked: every document is readable (a damaged document is
\* indexed like any other) and every archive lists its names in order
InitFair ==
    /\ InitIngest
    /\ corrupt = {}
    /\ \A c \in 1..Len(tree) : InOrder(tree[c].namelist)

FairIngest ==
    /\ InitFair
    /\ [][NextIngest]_vars
    /\ WF_vars(OpenContainer \/ ProcessDocument \/ FinishRun)

----------------------------------------------------------------------------
(* The retry run of retry_failed_pdfs.py over the triples of an error ledger *)

\* most triples in the ledger a retry run reads
MaxTriples == 2

\* the archives on disk during the retry runs
RetryTree == <<[zip_path |-> "root/a.zip", namelist |-> <<"p.pdf", "q.pdf">>]>>

\* the triples parse_error_file can return: one for each document of the tree, under
\* the name the namelist gives it, and one of root/gone.zip, which is no longer on disk
Triples ==
    {<<doc[1], doc[2], "pdf_error">> : doc \in DocsOf(tree)}
    \cup {<<"root/gone.zip", "p.pdf", "pdf_error">>}

RetryLedgers == UNION {[1..n -> Triples] : n \in 0..MaxTriples}

\* os.path.exists(zip_path)
exists(zip_path) == \E c \in 1..Len(tree) : tree[c].zip_path = zip_path

\* Python's None where a text is expected; extract_pdf_text_from_zip never returns it
NoText == "None"

RetryResult(success, how, o, called, item) ==
    [success |-> success, how |-> how, o |-> o, called |-> called, item |-> item]

\* retry_failed_pdf(zip_path, pdf_filename, db_manager, root_directory); fault is the
\* failure the engine meets in insert_pdf_content
retry_failed_pdf(d, zip_path, pdf_filename, fault, ts) ==
    LET same == Outcome(d, FALSE, FALSE, "None")
        ext == extract_pdf_text_from_zip(zip_path, pdf_filename)
        relative_zip_path == relpath(zip_path)
        item == Item(relative_zip_path, pdf_filename, ext[1], RetryMeta, ext[2], ext[3])
        o == insert_pdf_content(d, item, fault, ts)
    IN IF ~exists(zip_path) THEN RetryResult(FALSE, "not_found", same, FALSE, item)
       ELSE IF Raises(zip_path, pdf_filename) THEN RetryResult(FALSE, "exception", same, FALSE, item)
       ELSE IF ext[1] = NoText THEN RetryResult(FALSE, "no_text", same, FALSE, item)
       ELSE IF pdf_exists(d, relative_zip_path, pdf_filename)
       THEN RetryResult(TRUE, "exists", same, FALSE, item)
       ELSE IF o.raised THEN RetryResult(FALSE, "exception", o, TRUE, item)
       ELSE RetryResult(TRUE, "inserted", o, TRUE, item)

\* a failed triple is appended to failed_retries and counted as a success too
CountBoth(success, triple, count, failed) ==
    [successful_count |-> count + 1,
     failed_retries |-> IF success THEN failed ELSE Append(failed, triple)]

\* a failed triple is counted nowhere
CountOnly(success, triple, count, failed) ==
    [successful_count |-> IF success THEN count + 1 ELSE count, failed_retries |-> failed]

\* lines 208-211: successful_count += 1, or the triple with its original error is
\* appended to failed_retries
Tally(success, triple, count, failed) ==
    IF success THEN [successful_count |-> count + 1, failed_retries |-> failed]
    ELSE [successful_count |-> count, failed_retries |-> Append(failed, triple)]

\* write_retry_errors(failed_retries, output_file): the file is opened with 'w' and
\* holds the header and one block per triple
write_retry_errors(failed) == Some(failed)

\* main(), lines 157-201: a new process connects, parses the ledger and returns when it
\* holds no triple; what an earlier process held in memory is gone
StartRetry ==
    /\ pc \in {"idle", "retried", "done", "aborted"}
    /\ \E connected \in BOOLEAN :
          LET o == create_database_schema(db, connected)
          IN /\ db' = o.db
             /\ conn' = o.ok
             /\ IF o.ok
                THEN \E triples \in RetryLedgers :
                        /\ failed_files' = triples
                        /\ pc' = Proceed(o.ok, IF triples = <<>> THEN "retried" ELSE "retry")
                ELSE /\ failed_files' = <<>>
                     /\ pc' = Proceed(o.ok, "retry")
    /\ successful_count' = 0
    /\ failed_retries' = <<>>
    /\ retry_log' = <<>>
    /\ UNCHANGED <<now, call, retry_errors>>
    /\ batch' = <<>>
    /\ ci' = 0
    /\ di' = 0
    /\ last_processed_pdf' = "None"
    /\ entity_count' = None
    /\ extracted' = <<>>
    /\ visited' = <<>>
    /\ attempted' = <<>>
    /\ escaped' = <<>>
    /\ flushed' = <<>>
    /\ UNCHANGED <<tree, corrupt, unopenable, pdf_error, runs, resumed_after, killed, lost,
                   raising>>
    /\ UNCHANGED textVars
    /\ UNCHANGED <<searchVars, rootVars>>

\* lines 203-211: one pass of the loop over failed_files
RetryOne ==
    /\ pc = "retry"
    /\ Len(retry_log) < Len(failed_files)
    /\ \E fault \in 0..2 :
          LET triple == failed_files[Len(retry_log) + 1]
              r == retry_failed_pdf(db, triple[1], triple[2], fault, now)
              t == Tally(r.success, triple, successful_count, failed_retries)
          IN /\ r.called => now < MaxClock
             /\ db' = r.o.db
             /\ call' = IF r.called
                        THEN Called("insert_one", <<r.item>>, fault, r.o, db)
                        ELSE call
             /\ now' = IF r.called THEN now + 1 ELSE now
             /\ successful_count' = t.successful_count
             /\ failed_retries' = t.failed_retries
             /\ retry_log' = Append(retry_log,
                                    [triple |-> triple, how |-> r.how, success |-> r.success,
                                     called |-> r.called,
                                     key |-> <<r.item.zip_path, r.item.pdf_filename>>,
                                     existed |-> SelectId(db, r.item.zip_path,
                                                          r.item.pdf_filename) # {},
                                     wrote |-> \/ r.o.db.pdf_metadata # db.pdf_metadata
                                              \/ r.o.db.pdf_search_index # db.pdf_search_index])
    /\ UNCHANGED <<conn, failed_files, retry_errors>>
    /\ UNCHANGED <<tree, corrupt, unopenable, pc, ci, di, batch, last_processed_pdf,
                   entity_count, pdf_error, extracted, runs, resumed_after, killed, lost,
                   flushed,
                   raising, visited, attempted, escaped>>
    /\ UNCHANGED textVars
    /\ UNCHANGED <<searchVars, rootVars>>

\* lines 217-228: the report, and the output ledger when some triple still failed
FinishRetry ==
    /\ pc = "retry"
    /\ Len(retry_log) = Len(failed_files)
    /\ retry_errors' = IF failed_retries # <<>> THEN write_retry_errors(failed_retries)
                       ELSE retry_errors
    /\ pc' = "retried"
    /\ UNCHANGED <<db, conn, now, call, failed_files, successful_count, failed_retries,
                   retry_log>>
    /\ UNCHANGED <<tree, corrupt, unopenable, ci, di, batch, last_processed_pdf,
                   entity_count, pdf_error, extracted, runs, resumed_after, killed, lost,
                   flushed,
                   raising, visited, attempted, escaped>>
    /\ UNCHANGED textVars
    /\ UNCHANGED <<searchVars, rootVars>>

InitRetry ==
    /\ db = EmptyDb
    /\ conn = FALSE
    /\ now = 0
    /\ call = NoCall
    /\ tree = RetryTree
    /\ corrupt \in {{}, {<<"root/a.zip", "p.pdf">>}}
    /\ raising \in {{}, {<<"root/a.zip", "q.pdf">>}}
    /\ unopenable = {}
    /\ pc = "idle"
    /\ ci = 0
    /\ di = 0
    /\ batch = <<>>
    /\ last_processed_pdf = "None"
    /\ entity_count = None
    /\ pdf_error = <<>>
    /\ extracted = <<>>
    /\ runs = 0
    /\ resumed_after = -1
    /\ killed = FALSE
    /\ lost = {}
    /\ visited = <<>>
    /\ attempted = <<>>
    /\ escaped = <<>>
    /\ flushed = <<>>
    /\ InitRetryVars
    /\ InitTextVars
    /\ InitSearchVars
    /\ InitRootVars

NextRetry ==
    \/ StartRetry
    \/ RetryOne
    \/ FinishRetry

SpecRetry == InitRetry /\ [][NextRetry]_vars

----------------------------------------------------------------------------
(* Ingestion runs and retry runs of one operator on the same store and tree *)

\* an archive whose one member has a URL-quoted name
QuotedTree == <<[zip_path |-> "root/a.zip", namelist |-> <<"%70.pdf">>]>>

\* the state before the first run of either pipeline over the tree t, in which every
\* archive opens and every document extracts: what the operator runs, and when, is all
\* that varies
BeforeRuns(t) ==
    /\ db = EmptyDb
    /\ conn = FALSE
    /\ now = 0
    /\ call = NoCall
    /\ tree = t
    /\ corrupt = {}
    /\ raising = {}
    /\ unopenable = {}
    /\ pc = "idle"
    /\ ci = 0
    /\ di = 0
    /\ batch = <<>>
    /\ last_processed_pdf = "None"
    /\ entity_count = None
    /\ pdf_error = <<>>
    /\ extracted = <<>>
    /\ runs = 0
    /\ resumed_after = -1
    /\ killed = FALSE
    /\ lost = {}
    /\ visited = <<>>
    /\ attempted = <<>>
    /\ escaped = <<>>
    /\ flushed = <<>>
    /\ InitRetryVars
    /\ InitTextVars
    /\ InitSearchVars
    /\ InitRootVars

InitPipelines == BeforeRuns(QuotedTree)

NextPipelines ==
    \/ NextIngest
    \/ NextRetry

SpecPipelines == InitPipelines /\ [][NextPipelines]_vars

\* the same runs over the archive with two documents, where a run can be resumed
\* behind a document
InitResume == BeforeRuns(RetryTree)

SpecResume == InitResume /\ [][NextPipelines]_vars

----------------------------------------------------------------------------
(* Texts: a str is the sequence of its code points.  clean_text_encoding,     *)
(* the two ledger writers and parse_error_file on the text of the file.       *)

\* longest text given to clean_text_encoding
MaxText == 3
\* most entries written to a ledger by one writer
MaxEntries == 2
\* most blocks of a ledger file that was not left by a writer alone
MaxBlocks == 3

\* '\n'
LF == 10
\* '\r'
CR == 13
\* '?', what errors='replace' puts for a code point UTF-8 cannot encode
QuestionMark == 63
\* 0xD800
SurrogateFirst == 55296
\* 0xDFFF
SurrogateLast == 57343

\* str.isspace, as far as str.strip() meets it here
Whitespace == {9, 10, 11, 12, 13, 28, 29, 30, 31, 32, 133, 160}

IsSurrogate(c) == SurrogateFirst <= c /\ c <= SurrogateLast

\* '?', 'a', U+D7FF, U+D800, U+DBFF, U+DC00, U+DFFF, U+E000, U+1F600
CodePoints == {63, 97, 55295, 55296, 56319, 56320, 57343, 57344, 128512}

Texts == UNION {[1..n -> CodePoints] : n \in 0..MaxText}

\* text.encode('utf-8', errors='ignore').decode('utf-8'): what cannot be encoded is left out
EncodeIgnoreDecode(t) == SelectSeq(t, LAMBDA c : ~IsSurrogate(c))

\* text.encode('utf-8', errors='replace').decode('utf-8'): a code point UTF-8 cannot
\* encode, a surrogate, becomes '?'
EncodeReplaceDecode(t) ==
    [i \in 1..Len(t) |-> IF IsSurrogate(t[i]) THEN QuestionMark ELSE t[i]]

\* lines 36-45: every char whose ord is in 0xD800..0xDFFF is replaced by '?'
ReplaceSurrogates(t) ==
    [i \in 1..Len(t) |-> IF ~(SurrogateFirst <= t[i] /\ t[i] <= SurrogateLast)
                         THEN t[i] ELSE QuestionMark]

\* clean_text_encoding(text) for a str
clean_text_encoding(t) ==
    IF t = <<>> THEN t ELSE ReplaceSurrogates(EncodeReplaceDecode(t))

\* "zip_path: "
ZipPathLabel == <<122, 105, 112, 95, 112, 97, 116, 104, 58, 32>>
\* "pdf_filename: "
PdfFilenameLabel == <<112, 100, 102, 95, 102, 105, 108, 101, 110, 97, 109, 101, 58, 32>>
\* "error: "
ErrorLabel == <<101, 114, 114, 111, 114, 58, 32>>

\* the file object of open(..., encoding='utf-8', errors='replace') on write
FileWrite(t) == EncodeReplaceDecode(t)

\* the block ends with its error line alone
WriteToFileNoBlank(file, error, zip_path, pdf_filename) ==
    file \o FileWrite(ZipPathLabel \o clean_text_encoding(zip_path) \o <<LF>>)
         \o FileWrite(PdfFilenameLabel \o clean_text_encoding(pdf_filename) \o <<LF>>)
         \o FileWrite(ErrorLabel \o clean_text_encoding(error) \o <<LF>>)

\* write_to_file on the text of the file: opened with 'a', three lines and a blank line
WriteToFileText(file, error, zip_path, pdf_filename) ==
    file \o FileWrite(ZipPathLabel \o clean_text_encoding(zip_path) \o <<LF>>)
         \o FileWrite(PdfFilenameLabel \o clean_text_encoding(pdf_filename) \o <<LF>>)
         \o FileWrite(ErrorLabel \o clean_text_encoding(error) \o <<LF, LF>>)

\* the ledger after write_to_file was called for the first n entries, on no file
RECURSIVE WrittenByIngestion(_, _)
WrittenByIngestion(entries, n) ==
    IF n = 0 THEN <<>>
    ELSE WriteToFileText(WrittenByIngestion(entries, n - 1),
                         entries[n][3], entries[n][1], entries[n][2])

\* lines 138-141: the blocks of the first n triples
RECURSIVE RetryBlocks(_, _)
RetryBlocks(failed, n) ==
    IF n = 0 THEN <<>>
    ELSE RetryBlocks(failed, n - 1)
            \o FileWrite(ZipPathLabel \o failed[n][1] \o <<LF>>)
            \o FileWrite(PdfFilenameLabel \o failed[n][2] \o <<LF>>)
            \o FileWrite(ErrorLabel \o failed[n][3] \o <<LF, LF>>)

\* write_retry_errors on the text of the file: opened with 'w', two header lines (each
\* shortened to its '#'), a blank line, then the blocks
WriteRetryErrorsText(failed) ==
    <<35, LF, 35, LF, LF>> \o RetryBlocks(failed, Len(failed))

\* f.read() in text mode: '\r\n' and '\r' are read as '\n'
FileRead(t) ==
    LET kept == SelectSeq([i \in 1..Len(t) |-> i],
                          LAMBDA i : ~(t[i] = LF /\ i > 1 /\ t[i - 1] = CR))
    IN [k \in 1..Len(kept) |-> IF t[kept[k]] = CR THEN LF ELSE t[kept[k]]]

\* str.strip()
strip(t) ==
    LET inked == {i \in 1..Len(t) : t[i] \notin Whitespace}
    IN IF inked = {} THEN <<>>
       ELSE SubSeq(t, CHOOSE i \in inked : \A j \in inked : i <= j,
                      CHOOSE i \in inked : \A j \in inked : j <= i)

\* str.startswith(prefix)
startswith(t, prefix) == Len(t) >= Len(prefix) /\ SubSeq(t, 1, Len(prefix)) = prefix

\* str.split(sep): the piece before the first sep, then the split of what follows it
RECURSIVE split(_, _)
split(t, sep) ==
    LET found == {i \in 1..(Len(t) - Len(sep) + 1) : SubSeq(t, i, i + Len(sep) - 1) = sep}
        first == CHOOSE i \in found : \A j \in found : i <= j
    IN IF found = {} THEN <<t>>
       ELSE <<SubSeq(t, 1, first - 1)>> \o split(SubSeq(t, first + Len(sep), Len(t)), sep)

\* line[n:]
From(line, n) == SubSeq(line, n + 1, Len(line))

\* lines 44-54: the three fields after the first n lines of the block; None and ''
\* are both the empty text
RECURSIVE Fields(_, _)
Fields(lines, n) ==
    IF n = 0 THEN [zip_path |-> None, pdf_filename |-> None, error_message |-> None]
    ELSE LET f == Fields(lines, n - 1)
             line == lines[n]
         IN IF startswith(line, ZipPathLabel)
            THEN [f EXCEPT !.zip_path = strip(From(line, 10))]
            ELSE IF startswith(line, PdfFilenameLabel)
            THEN [f EXCEPT !.pdf_filename = strip(From(line, 14))]
            ELSE IF startswith(line, ErrorLabel)
            THEN [f EXCEPT !.error_message = strip(From(line, 7))]
            ELSE f

\* a block is taken for its key alone
HasKey(f) == f.zip_path # <<>> /\ f.pdf_filename # <<>>

\* line 56: if zip_path and pdf_filename and error_message
Complete(f) == f.zip_path # <<>> /\ f.pdf_filename # <<>> /\ f.error_message # <<>>

\* lines 39-57: failed_files after the first n blocks
RECURSIVE ParseBlocks(_, _)
ParseBlocks(error_blocks, n) ==
    IF n = 0 THEN <<>>
    ELSE LET failed == ParseBlocks(error_blocks, n - 1)
             block == error_blocks[n]
             lines == split(strip(block), <<LF>>)
             f == Fields(lines, Len(lines))
         IN IF strip(block) = <<>> THEN failed
            ELSE IF Complete(f)
            THEN Append(failed, <<f.zip_path, f.pdf_filename, f.error_message>>)
            ELSE failed

\* parse_error_file on the text of an existing file
parse_error_file(file) ==
    LET content == FileRead(file)
        error_blocks == split(strip(content), <<LF, LF>>)
    IN ParseBlocks(error_blocks, Len(error_blocks))

\* the text functions alone: no store, no walk, no retry run
Standalone ==
    /\ db = EmptyDb
    /\ conn = FALSE
    /\ now = 0
    /\ call = NoCall
    /\ tree = NoTree
    /\ corrupt = {}
    /\ unopenable = {}
    /\ raising = {}
    /\ pc = "idle"
    /\ ci = 0
    /\ di = 0
    /\ batch = <<>>
    /\ last_processed_pdf = "None"
    /\ entity_count = None
    /\ pdf_error = <<>>
    /\ extracted = <<>>
    /\ runs = 0
    /\ resumed_after = -1
    /\ killed = FALSE
    /\ lost = {}
    /\ visited = <<>>
    /\ attempted = <<>>
    /\ escaped = <<>>
    /\ flushed = <<>>
    /\ InitRetryVars

\* clean_text_encoding(text)
Clean ==
    /\ fn = <<>>
    /\ fn' = <<"clean_text_encoding">>
    /\ returned' = clean_text_encoding(arg)
    /\ UNCHANGED <<arg, text>>
    /\ UNCHANGED <<storeVars, walkVars, retryVars, searchVars, rootVars>>

\* clean_text_encoding on its own result, which text keeps
CleanAgain ==
    /\ fn = <<"clean_text_encoding">>
    /\ fn' = Append(fn, "clean_text_encoding")
    /\ text' = returned
    /\ returned' = clean_text_encoding(returned)
    /\ UNCHANGED arg
    /\ UNCHANGED <<storeVars, walkVars, retryVars, searchVars, rootVars>>

InitClean ==
    /\ Standalone
    /\ InitSearchVars
    /\ InitRootVars
    /\ fn = <<>>
    /\ arg \in Texts
    /\ text = <<>>
    /\ returned = <<>>

NextClean ==
    \/ Clean
    \/ CleanAgain

SpecClean == InitClean /\ [][NextClean]_vars

\* "a" and "b c"
PlainValues == {<<97>>, <<98, 32, 99>>}

\* an entry or block of a ledger: for each of zip_path, pdf_filename and error its
\* text <<t>>, or <<>> when the block has no such line
Entry(zip_path, pdf_filename, error) == <<Some(zip_path), Some(pdf_filename), Some(error)>>

\* what the writers are called with: plain values, and an empty document name (line
\* 187), a leading blank, an error text of two lines, one with an empty line, one with
\* a lone surrogate, one with a carriage return
Entries ==
    {Entry(z, p, e) : z, p, e \in PlainValues}
      \cup {Entry(<<97>>, <<>>, <<97>>), Entry(<<97>>, <<32, 97>>, <<97>>),
            Entry(<<97>>, <<97>>, <<97, LF, 98>>), Entry(<<97>>, <<97>>, <<97, LF, LF, 98>>),
            Entry(<<97>>, <<97>>, <<97, SurrogateFirst>>),
            Entry(<<97>>, <<97>>, <<97, CR, 98>>)}

EntryLists == UNION {[1..n -> Entries] : n \in 0..MaxEntries}

\* blocks of a file: two with their three lines, and blocks that lack one line or all
BlockKinds ==
    {Entry(<<97>>, <<97>>, <<97>>), Entry(<<98, 32, 99>>, <<97>>, <<98, 32, 99>>),
     <<None, Some(<<97>>), Some(<<97>>)>>, <<Some(<<97>>), None, Some(<<97>>)>>,
     <<Some(<<97>>), Some(<<97>>), None>>, <<None, None, None>>}

BlockLists == UNION {[1..n -> BlockKinds] : n \in 0..MaxBlocks}

\* the triples the writers are called with
Originals(blocks) ==
    [i \in 1..Len(blocks) |-> <<blocks[i][1][1], blocks[i][2][1], blocks[i][3][1]>>]

\* a line of a block, when the block has it
Line(label, field) == IF field = None THEN <<>> ELSE label \o field[1] \o <<LF>>

\* a ledger file of these blocks, each closed by a blank line
RECURSIVE BlocksText(_, _)
BlocksText(blocks, n) ==
    IF n = 0 THEN <<>>
    ELSE BlocksText(blocks, n - 1)
            \o Line(ZipPathLabel, blocks[n][1]) \o Line(PdfFilenameLabel, blocks[n][2])
            \o Line(ErrorLabel, blocks[n][3]) \o <<LF>>

\* the ingestion run calls write_to_file for each entry
WriteToFile ==
    /\ fn = <<>>
    /\ arg \in EntryLists
    /\ fn' = <<"write_to_file">>
    /\ text' = WrittenByIngestion(Originals(arg), Len(arg))
    /\ UNCHANGED <<arg, returned>>
    /\ UNCHANGED <<storeVars, walkVars, retryVars, searchVars, rootVars>>

\* write_retry_errors(failed_retries, output_file)
WriteRetryErrors ==
    /\ fn = <<>>
    /\ arg \in EntryLists
    /\ fn' = <<"write_retry_errors">>
    /\ text' = WriteRetryErrorsText(Originals(arg))
    /\ UNCHANGED <<arg, returned>>
    /\ UNCHANGED <<storeVars, walkVars, retryVars, searchVars, rootVars>>

\* the error file is one that holds these blocks
FileOnDisk ==
    /\ fn = <<>>
    /\ fn' = <<"file">>
    /\ text' = BlocksText(arg, Len(arg))
    /\ UNCHANGED <<arg, returned>>
    /\ UNCHANGED <<storeVars, walkVars, retryVars, searchVars, rootVars>>

\* parse_error_file(error_file_path)
ParseErrorFile ==
    /\ Len(fn) = 1
    /\ fn' = Append(fn, "parse_error_file")
    /\ returned' = parse_error_file(text)
    /\ UNCHANGED <<arg, text>>
    /\ UNCHANGED <<storeVars, walkVars, retryVars, searchVars, rootVars>>

InitLedger ==
    /\ Standalone
    /\ InitSearchVars
    /\ InitRootVars
    /\ fn = <<>>
    /\ arg \in EntryLists \cup BlockLists
    /\ text = <<>>
    /\ returned = <<>>

NextLedger ==
    \/ WriteToFile
    \/ WriteRetryErrors
    \/ FileOnDisk
    \/ ParseErrorFile

SpecLedger == InitLedger /\ [][NextLedger]_vars

----------------------------------------------------------------------------
(* Properties of the store *)

RowsOf(d, item) ==
    {x \in d.pdf_metadata : x.zip_path = item.zip_path /\ x.pdf_filename = item.pdf_filename}

EntriesOf(d, item) ==
    {e \in d.pdf_search_index : \E x \in RowsOf(d, item) : e.rowid = x.id}

IsInsert == call.op \in {"insert_batch", "insert_one"} /\ ~(call.op = "insert_batch" /\ call.raised)

\* the record of the call is the one the store already holds: same text, same merged metadata
Identical(d, item) ==
    /\ \E x \in RowsOf(d, item) :
          x.metadata = MergeMetadata(item.metadata, item.file_size, item.pages_count)
    /\ \E e \in EntriesOf(d, item) : e.content = item.raw_text

SameTables(d1, d2) ==
    /\ d1.pdf_metadata = d2.pdf_metadata
    /\ d1.pdf_search_index = d2.pdf_search_index

DistinctKeys(items) ==
    \A i, j \in 1..Len(items) :
        i # j => ~(items[i].zip_path = items[j].zip_path
                   /\ items[i].pdf_filename = items[j].pdf_filename)

\* C1 Idempotent insert: after insert_batch or insert_one on a key the store already
\* holds, the store has exactly one row and exactly one index entry for that key, and
\* when the record is identical to the stored one neither table has changed.
C1_IdempotentInsert ==
    IsInsert =>
        \A i \in 1..Len(call.items) :
            RowsOf(call.pre, call.items[i]) # {} =>
                /\ Cardinality(RowsOf(db, call.items[i])) = 1
                /\ Cardinality(EntriesOf(db, call.items[i])) = 1
                /\ ((\A j \in 1..Len(call.items) : Identical(call.pre, call.items[j]))
                       => SameTables(db, call.pre))

\* insert_batch was called a second time with the identical single record
C1_Witness ==
    /\ call.op = "insert_batch"
    /\ ~call.raised
    /\ Len(call.items) = 1
    /\ call.fault = Len(call.items)
    /\ Identical(call.pre, call.items[1])
    /\ Cardinality(db.pdf_metadata) = 1

\* C2 Batch atomicity: after insert_batch, of the batch's records that were not in the
\* store before, either none or all are in the metadata table (and the index), and every
\* row and index entry committed before the call is still there.
C2_BatchAtomicity ==
    (call.op = "insert_batch" /\ ~call.raised) =>
        LET new == {i \in 1..Len(call.items) : RowsOf(call.pre, call.items[i]) = {}}
            inMeta == {i \in new : RowsOf(db, call.items[i]) # {}}
            inIndex == {i \in new : EntriesOf(db, call.items[i]) # {}}
        IN /\ inMeta = {} \/ inMeta = new
           /\ inIndex = inMeta
           /\ call.pre.pdf_metadata \subseteq db.pdf_metadata
           /\ call.pre.pdf_search_index \subseteq db.pdf_search_index
           /\ ~call.ok => SameTables(db, call.pre)

\* a batch of two records, the first new and the second already committed, failed after
\* the first metadata row was written
C2_Witness ==
    /\ call.op = "insert_batch"
    /\ ~call.raised
    /\ ~call.ok
    /\ Len(call.items) = 2
    /\ call.fault = 1
    /\ DistinctKeys(call.items)
    /\ RowsOf(call.pre, call.items[1]) = {}
    /\ RowsOf(call.pre, call.items[2]) # {}

\* C3 Store consistency: after every completed call the row ids of the index are the
\* row ids of the metadata table, one entry per row.
C3_StoreConsistency ==
    /\ {e.rowid : e \in db.pdf_search_index} = {x.id : x \in db.pdf_metadata}
    /\ \A e1, e2 \in db.pdf_search_index : e1.rowid = e2.rowid => e1 = e2
    /\ \A x1, x2 \in db.pdf_metadata : x1.id = x2.id => x1 = x2

\* insert_one on a new key failed after its metadata row was written, on a store that
\* already held a record
C3_Witness ==
    /\ call.op = "insert_one"
    /\ call.raised
    /\ call.fault = 1
    /\ RowsOf(call.pre, call.items[1]) = {}
    /\ db.pdf_metadata # {}

\* C6 Mixed batch (the claim as stated): a batch of distinct keys, some already stored
\* and some new, meets no injected failure; then it commits and every record of the
\* batch has its row and its index entry.
C6_MixedBatchCommitsNew ==
    (/\ call.op = "insert_batch"
     /\ ~call.raised
     /\ call.fault = Len(call.items)
     /\ DistinctKeys(call.items)
     /\ \E i \in 1..Len(call.items) : RowsOf(call.pre, call.items[i]) # {}
     /\ \E i \in 1..Len(call.items) : RowsOf(call.pre, call.items[i]) = {})
    => /\ call.ok
       /\ \A i \in 1..Len(call.items) :
             RowsOf(db, call.items[i]) # {} /\ EntriesOf(db, call.items[i]) # {}

\* C7 Index entry untouched on re-insert (the claim as stated): after insert_one or
\* insert_batch on a key whose row existed, the index entry of that row is what it was.
C7_IndexUntouchedOnReinsert ==
    IsInsert =>
        \A i \in 1..Len(call.items) :
            RowsOf(call.pre, call.items[i]) # {} =>
                EntriesOf(db, call.items[i]) = EntriesOf(call.pre, call.items[i])

\* C8 DocumentRecord immutability: every row of the metadata table is still there,
\* with its id, metadata and created_at, after any step.
C8_RecordImmutable ==
    [][\A x \in db.pdf_metadata : x \in db'.pdf_metadata]_vars

\* insert_one committed for a key already stored with other metadata
C8_Witness ==
    /\ call.op = "insert_one"
    /\ call.ok
    /\ \E x \in RowsOf(call.pre, call.items[1]) :
          x.metadata # MergeMetadata(call.items[1].metadata, call.items[1].file_size,
                                     call.items[1].pages_count)

----------------------------------------------------------------------------
(* Properties of the ingestion run *)

FlatTree == Flat(tree, Len(tree))

Range(f) == {f[i] : i \in 1..Len(f)}

\* no two documents of the tree share a name, nothing fails to open or to extract, and
\* no batch was rolled back
HappyPath ==
    /\ corrupt = {}
    /\ unopenable = {}
    /\ raising = {}
    /\ lost = {}
    /\ Cardinality({unquote(doc[2]) : doc \in DocsOf(tree)}) = Len(FlatTree)

Indexed(doc) ==
    LET rows == {x \in db.pdf_metadata :
                    <<x.zip_path, x.pdf_filename>> = StoreKey(doc)}
    IN /\ Cardinality(rows) = 1
       /\ \A x \in rows : Cardinality({e \in db.pdf_search_index : e.rowid = x.id}) = 1

\* C4 Resume correctness, happy path (the claim as stated): a run that started on a
\* store holding exactly the first k >= 1 documents of the unchanged tree, the k-th (D)
\* being the last row, has at its end extracted the documents after D, each once, in
\* enumeration order, and none before D nor D itself.
C4_ResumeProcessesAllAfterD ==
    (pc = "done" /\ resumed_after >= 1 /\ HappyPath) =>
        extracted = SubSeq(FlatTree, resumed_after + 1, Len(FlatTree))

\* C5 Crash-resume (the claim as stated): once a run was terminated and a later run over
\* the unchanged tree has come to its end, every document of the tree has exactly one
\* row and one index entry.
C5_CrashResumeIndexesAll ==
    (pc = "done" /\ killed /\ HappyPath) =>
        \A doc \in DocsOf(tree) : Indexed(doc)

\* C10 Ingestion extraction failure (the claim as stated): at the end of a run, a
\* document the backend failed on during the run has an entry in the error ledger and
\* no row (hence no index entry) in the store.
C10_ExtractionFailureLedgered ==
    pc = "done" =>
        \A doc \in corrupt :
            doc \in Range(extracted) =>
                /\ \E i \in 1..Len(pdf_error) :
                      pdf_error[i].zip_path = doc[1] /\ pdf_error[i].pdf_filename = doc[2]
                /\ \A x \in db.pdf_metadata : <<x.zip_path, x.pdf_filename>> # StoreKey(doc)

\* the containers and documents of the tree after position i of the enumeration
LaterDocs(i) == {FlatTree[j] : j \in (i + 1)..Len(FlatTree)}

\* the run met an exception while it processed this document: one that reached the
\* handler of line 181, or one that extract_pdf_text_from_zip caught itself
FailedInRun(doc) ==
    \/ doc \in Range(escaped)
    \/ doc \in corrupt /\ doc \in Range(extracted)

\* C12 Per-document failure never aborts the run: at the end of a run, every document
\* that follows, in enumeration order, a document whose processing raised an exception
\* was reached by the loop, unless its container could not be opened.
C12_DocumentFailureDoesNotAbort ==
    pc = "done" =>
        \A i \in 1..Len(FlatTree) :
            FailedInRun(FlatTree[i]) =>
                \A doc \in LaterDocs(i) : doc \in Range(visited) \/ doc[1] \in unopenable

\* a run came to its end after the first document of the tree raised into the handler
\* of line 181, which wrote it to the ledger, and a document of the other container was
\* extracted after it
C12_Witness ==
    /\ pc = "done"
    /\ Len(escaped) = 1
    /\ escaped[1] = FlatTree[1]
    /\ \E e \in Range(pdf_error) : <<e.zip_path, e.pdf_filename>> = escaped[1]
    /\ \E doc \in Range(extracted) : doc[1] # escaped[1][1]

\* C13 Container-open failure is isolated: at the end of a run, a container that could
\* not be opened has its entry in the ledger, none of its documents was reached,
\* extracted or committed, and every container after it was tried.
C13_ContainerFailureIsolated ==
    pc = "done" =>
        \A c \in 1..Len(tree) :
            tree[c].zip_path \in unopenable =>
                /\ \E e \in Range(pdf_error) :
                      e.zip_path = tree[c].zip_path /\ e.pdf_filename = ""
                /\ \A doc \in Range(visited) \cup Range(extracted) : doc[1] # tree[c].zip_path
                /\ \A x \in db.pdf_metadata : x.zip_path # relpath(tree[c].zip_path)
                /\ \A k \in (c + 1)..Len(tree) : tree[k].zip_path \in Range(attempted)

\* a run came to its end after its first container could not be opened, and committed
\* a document of the second
C13_Witness ==
    /\ pc = "done"
    /\ tree[1].zip_path \in unopenable
    /\ attempted = <<tree[1].zip_path, tree[2].zip_path>>
    /\ \E x \in db.pdf_metadata : x.zip_path = relpath(tree[2].zip_path)

\* C14 (the claim as stated): an insert_batch that failed and was rolled back gives its
\* caller an error outcome: it raises, or returns something other than what a committed
\* batch returns.
C14_BatchFailureSurfaced ==
    (call.op = "insert_batch" /\ ~call.ok) =>
        /\ SameTables(db, call.pre)
        /\ call.raised \/ call.ret # "None"

\* C20 schema_init is idempotent and non-destructive: after create_database_schema the
\* metadata table, the index and the id sequence are what they were before the call.
C20_SchemaInitNonDestructive ==
    call.op = "create_database_schema" =>
        /\ SameTables(db, call.pre)
        /\ db.sqlite_sequence = call.pre.sqlite_sequence

\* create_database_schema connected to a store that held a record
C20_Witness ==
    /\ call.op = "create_database_schema"
    /\ call.ok
    /\ call.pre.pdf_metadata # {}
    /\ call.pre.pdf_search_index # {}

----------------------------------------------------------------------------
(* Properties of the retry run *)

BackendFails(triple) == <<triple[1], triple[2]>> \in corrupt \cup raising

\* the triples of failed_files whose retry did not succeed, in input order
RECURSIVE StillFailing(_)
StillFailing(n) ==
    IF n = 0 THEN <<>>
    ELSE IF retry_log[n].success THEN StillFailing(n - 1)
    ELSE Append(StillFailing(n - 1), failed_files[n])

\* the triples in the output ledger; none while the file does not exist
OutputTriples == IF retry_errors = None THEN <<>> ELSE retry_errors[1]

\* C11 Retry extraction failure (the claim as stated): a triple of an archive on disk
\* whose document the backend fails on is not counted as a success, is among the
\* still-failing triples, and its retry commits nothing.
C11_RetryExtractionFailure ==
    \A i \in 1..Len(retry_log) :
        (exists(retry_log[i].triple[1]) /\ BackendFails(retry_log[i].triple)) =>
            /\ ~retry_log[i].success
            /\ retry_log[i].triple \in Range(failed_retries)
            /\ ~retry_log[i].wrote

\* the retry of a triple whose document the backend cannot read committed a record
C11_Witness ==
    \E i \in 1..Len(retry_log) :
        /\ <<retry_log[i].triple[1], retry_log[i].triple[2]>> \in corrupt
        /\ retry_log[i].how = "inserted"
        /\ retry_log[i].wrote

\* C15 Retry output ledger (the claim as stated): at the end of a retry run the output
\* ledger holds exactly the triples that still failed, in input order and with their
\* original error text, also when none failed.
C15_OutputLedgerExact ==
    pc = "retried" => OutputTriples = StillFailing(Len(retry_log))

\* a retry run came to its end with every triple of its ledger a success, while the
\* output ledger of an earlier run exists
C15_Witness ==
    /\ pc = "retried"
    /\ failed_files # <<>>
    /\ successful_count = Len(failed_files)
    /\ retry_errors # None

\* C16 Insertion failure in retry: a triple whose insert_one raised is not a success, is
\* in failed_retries with its original error, left no row and no index entry at the
\* rollback, and is in the output ledger at the end of the run.
C16_RetryInsertFailure ==
    /\ \A i \in 1..Len(retry_log) :
          (retry_log[i].called /\ retry_log[i].how = "exception") =>
              /\ ~retry_log[i].success
              /\ ~retry_log[i].wrote
              /\ retry_log[i].triple \in Range(failed_retries)
              /\ pc = "retried" => retry_log[i].triple \in Range(OutputTriples)
    /\ (retry_log # <<>> /\ retry_log[Len(retry_log)].called
          /\ retry_log[Len(retry_log)].how = "exception") =>
              /\ call.op = "insert_one"
              /\ call.raised
              /\ SameTables(db, call.pre)
              /\ RowsOf(db, call.items[1]) = {}
              /\ EntriesOf(db, call.items[1]) = {}

\* a retry run came to its end whose last triple failed in insert_one after the
\* metadata row was written, on a store that kept the record of an earlier triple
C16_Witness ==
    /\ pc = "retried"
    /\ Len(retry_log) = 2
    /\ retry_log[1].how = "inserted"
    /\ retry_log[2].called
    /\ retry_log[2].how = "exception"
    /\ call.fault = 1
    /\ db.pdf_metadata # {}
    /\ OutputTriples = <<retry_log[2].triple>>

----------------------------------------------------------------------------
(* Properties of the text functions *)

\* the ledger was written by one of the two writers and then parsed
WrittenAndParsed ==
    /\ Len(fn) = 2
    /\ fn[1] \in {"write_to_file", "write_retry_errors"}
    /\ fn[2] = "parse_error_file"

\* not empty, on one line, no surrogate, no blank at either end
WellFormedField(v) ==
    /\ v # <<>>
    /\ \A i \in 1..Len(v) : v[i] \notin {LF, CR} /\ ~IsSurrogate(v[i])
    /\ v[1] \notin Whitespace
    /\ v[Len(v)] \notin Whitespace

WellFormedEntries(blocks) ==
    \A i \in 1..Len(blocks) : \A k \in 1..3 :
        blocks[i][k] # None /\ WellFormedField(blocks[i][k][1])

\* C17 Ledger round-trip (the claim as stated): the entries a writer wrote, parsed by
\* parse_error_file, are the original triples, as many and in the same order.
C17_LedgerRoundTrip ==
    WrittenAndParsed => returned = Originals(arg)

\* C17 as amended: the round trip gives the original triples when every field of every
\* entry is not empty, has no line break, no surrogate and no blank at either end.
C17_WellFormedRoundTrip ==
    (WrittenAndParsed /\ WellFormedEntries(arg)) => returned = Originals(arg)

\* two different well-formed entries, one with blanks inside its fields, were written
\* by write_to_file and parsed
C17_Witness ==
    /\ fn = <<"write_to_file", "parse_error_file">>
    /\ Len(arg) = 2
    /\ arg[1] # arg[2]
    /\ arg[1][3][1] = <<98, 32, 99>>
    /\ WellFormedEntries(arg)
    /\ Len(returned) = 2

HasThreeLines(block) == block[1] # None /\ block[2] # None /\ block[3] # None

\* C18 Malformed-block tolerance: of a file whose blocks have well-formed values but
\* may lack lines, parse_error_file returns the triples of the blocks that have all
\* three lines, in order, and nothing for the others.
C18_MalformedBlocksDropped ==
    (fn = <<"file", "parse_error_file">> /\ arg \in BlockLists) =>
        returned = Originals(SelectSeq(arg, HasThreeLines))

\* a file of three blocks, the second without its error line, was parsed to two triples
C18_Witness ==
    /\ fn = <<"file", "parse_error_file">>
    /\ Len(arg) = 3
    /\ HasThreeLines(arg[1])
    /\ arg[2][1] # None /\ arg[2][2] # None /\ arg[2][3] = None
    /\ HasThreeLines(arg[3])
    /\ Len(returned) = 2

\* C19 Sanitization: the text clean_text_encoding returns has no code point in
\* U+D800..U+DFFF, has '?' where the input had a surrogate and the input's code point
\* everywhere else, and cleaning it again returns it unchanged.
C19_Sanitized ==
    fn # <<>> =>
        /\ \A i \in 1..Len(returned) : ~IsSurrogate(returned[i])
        /\ Len(returned) = Len(arg)
        /\ \A i \in 1..Len(arg) :
              returned[i] = IF IsSurrogate(arg[i]) THEN QuestionMark ELSE arg[i]
        /\ Len(fn) = 2 => returned = text

\* a text with a surrogate, an astral code point and another surrogate was cleaned, and
\* cleaned again
C19_Witness ==
    /\ Len(fn) = 2
    /\ Len(arg) = 3
    /\ IsSurrogate(arg[1])
    /\ arg[2] = 128512
    /\ IsSurrogate(arg[3])
    /\ returned = <<QuestionMark, 128512, QuestionMark>>

----------------------------------------------------------------------------
(* Properties of the two pipelines on one store *)

\* a step that enumerates nothing, extracts nothing and writes nothing
NoWork ==
    /\ db' = db /\ now' = now /\ pdf_error' = pdf_error /\ retry_errors' = retry_errors
    /\ Len(attempted') <= Len(attempted) /\ Len(visited') <= Len(visited)
    /\ Len(extracted') <= Len(extracted) /\ Len(retry_log') <= Len(retry_log)

\* C21: when create_database_schema fails, neither the ingestion run nor the retry run
\* enumerates, extracts or writes anything: a walk or a retry loop runs only with a
\* connection, the failed start leaves store, error ledger and output ledger as they
\* were, and nothing follows it but the start of another run
C21_SchemaInitFailureFatal ==
    /\ [](/\ pc \in {"walk", "retry"} => conn
          /\ pc = "aborted" => ~conn)
    /\ [][pc' = "aborted" \/ pc = "aborted" => NoWork]_vars

\* a start failed on a store that earlier runs of both pipelines had written to
C21_Witness ==
    /\ pc = "aborted"
    /\ \E r \in db.pdf_metadata : r.metadata = IngestMeta \cup {<<"file_size", "1024">>, <<"pages_count", "3">>}
    /\ retry_errors # None

----------------------------------------------------------------------------
(* More properties of the store *)

NoEngineFault ==
    \/ call.op = "insert_batch" /\ call.fault = Len(call.items)
    \/ call.op = "insert_one" /\ call.fault = 2

\* m extended with file_size and pages_count, each only when its value was supplied
Extended(item) ==
    item.metadata
    \cup {<<"file_size", item.file_size[i]>> : i \in 1..Len(item.file_size)}
    \cup {<<"pages_count", item.pages_count[i]>> : i \in 1..Len(item.pages_count)}

\* C23: after insert_batch or insert_one of a new record with metadata m, size s and
\* pages p, the record exists and its stored metadata is m extended with file_size = s
\* and pages_count = p, each key only when its value was supplied (of two records of one
\* batch under the same key, the first is the new one)
C23_MetadataMerged ==
    (IsInsert /\ ~call.raised /\ NoEngineFault) =>
        \A i \in 1..Len(call.items) :
            (/\ RowsOf(call.pre, call.items[i]) = {}
             /\ \A j \in 1..(i - 1) : call.items[j].pdf_filename # call.items[i].pdf_filename)
            => /\ pdf_exists(db, call.items[i].zip_path, call.items[i].pdf_filename)
               /\ \A x \in RowsOf(db, call.items[i]) : x.metadata = Extended(call.items[i])

----------------------------------------------------------------------------
(* More properties of the two pipelines *)

\* the records of the store for a document of the tree, under the key of ingestion or
\* under the name the namelist gives
StoredFor(doc) ==
    {x \in db.pdf_metadata :
        /\ x.zip_path = relpath(doc[1])
        /\ x.pdf_filename \in {doc[2], unquote(doc[2])}}

\* C24: the key under which the retry run checks pdf_exists and commits a document is
\* the key under which the ingestion run commits the same document, so no document is
\* stored under two different keys
C24_RetryKeyIsIngestionKey ==
    /\ \A i \in 1..Len(retry_log) :
          retry_log[i].how \in {"exists", "inserted"} =>
              retry_log[i].key = StoreKey(<<retry_log[i].triple[1], retry_log[i].triple[2]>>)
    /\ \A doc \in DocsOf(tree) : Cardinality(StoredFor(doc)) <= 1

----------------------------------------------------------------------------
(* More properties of the ingestion run *)

\* the step handles a failure: an exception that escaped the processing of a document,
\* or an archive that does not open
WritesEntry ==
    \/ Len(escaped') > Len(escaped)
    \/ /\ Len(attempted') > Len(attempted)
       /\ attempted'[Len(attempted')] \in unopenable

\* C25: the error ledger is append-only for ingestion: in every step of every run, each
\* entry written before is still there, unchanged and at its position, and a step that
\* writes an entry puts it behind them
C25_LedgerAppendOnly ==
    [][/\ Len(pdf_error') >= Len(pdf_error)
       /\ \A i \in 1..Len(pdf_error) : pdf_error'[i] = pdf_error[i]
       /\ WritesEntry => Len(pdf_error') = Len(pdf_error) + 1]_vars

\* a second run has appended its entry behind the entry of the first run
C25_Witness ==
    /\ runs = 2
    /\ Len(escaped) = 1
    /\ Len(pdf_error) = 2

\* the step passes over an archive that opens, without entering it
SkipsContainer ==
    /\ pc = "walk" /\ pc' = "walk"
    /\ ci <= Len(tree) /\ di = 0
    /\ tree[ci].zip_path \notin unopenable
    /\ ci' = ci + 1

\* C26: a whole archive is skipped only while the resume marker is pending; once the
\* marker was matched and cleared, no later archive is skipped
C26_SkipOnlyWhilePending ==
    [][SkipsContainer => last_processed_pdf # "None"]_vars

\* the keys of the records of a batch, in order
KeysOf(items) == [i \in 1..Len(items) |-> <<items[i].zip_path, items[i].pdf_filename>>]

\* the keys of the records of the first n flushes of the run, in order
RECURSIVE FlushedKeys(_)
FlushedKeys(n) ==
    IF n = 0 THEN <<>> ELSE FlushedKeys(n - 1) \o KeysOf(flushed[n].items)

\* the keys of the documents the run extracted and appended to the batch, in order
AppendedKeys ==
    LET docs == SelectSeq(extracted, LAMBDA doc : ~Raises(doc[1], doc[2]))
    IN [i \in 1..Len(docs) |-> StoreKey(docs[i])]

\* C27: batching loses and duplicates nothing: the batch never reaches batch_size
\* between two documents, every flush inside the loop passes batch_size records and
\* leaves the batch empty, and in a run that ends normally the flushes hold the
\* appended documents once each, in their order, the last flush holding the remaining
\* partial batch
C27_BatchingExact ==
    /\ Len(batch) < BatchSize
    /\ \A i \in 1..Len(flushed) :
          /\ flushed[i].items # <<>>
          /\ Len(flushed[i].items) <= BatchSize
          /\ (i < Len(flushed) \/ pc = "walk") => Len(flushed[i].items) = BatchSize
    /\ pc = "walk" => FlushedKeys(Len(flushed)) \o KeysOf(batch) = AppendedKeys
    /\ pc = "done" => FlushedKeys(Len(flushed)) = AppendedKeys

\* a run ended normally after a full batch and a final partial batch
C27_Witness ==
    /\ pc = "done"
    /\ Len(flushed) = 2
    /\ Len(flushed[1].items) = BatchSize
    /\ Len(flushed[2].items) < BatchSize
    /\ Len(AppendedKeys) > BatchSize

\* the step is a flush inside the loop that insert_pdf_contents_batch rolled back
FlushFailsInLoop ==
    /\ pc = "walk" /\ ci <= Len(tree)
    /\ Len(flushed') > Len(flushed)
    /\ ~flushed'[Len(flushed')].ok

\* C28: after a batch commit failure the run continues with the next document, and the
\* documents of the failed batch are neither committed nor re-queued: they are in no
\* later batch of the run, and those the store did not hold before are not in it
C28_FailedBatchDropped ==
    /\ [](\A i \in 1..Len(flushed) :
             ~flushed[i].ok =>
                 \A k \in 1..Len(flushed[i].items) :
                    LET key == KeysOf(flushed[i].items)[k]
                    IN /\ \A j \in (i + 1)..Len(flushed) :
                             \A m \in 1..Len(flushed[j].items) :
                                KeysOf(flushed[j].items)[m] # key
                       /\ pc = "walk" => \A m \in 1..Len(batch) : KeysOf(batch)[m] # key
                       /\ key \notin flushed[i].had => ~pdf_exists(db, key[1], key[2]))
    /\ [][FlushFailsInLoop =>
             /\ pc' = "walk"
             /\ <<ci', di'>> = NextDocument(ci, di)
             /\ batch' = <<>>]_vars

\* a batch was rolled back, and the run went on to flush a later batch and ended
C28_Witness ==
    /\ pc = "done"
    /\ Len(flushed) = 2
    /\ ~flushed[1].ok
    /\ flushed[2].ok
    /\ flushed[1].had = {}

----------------------------------------------------------------------------
(* More properties of the retry run *)

\* the archive of the triple is on disk and the backend extracts the document
Extracts(triple) ==
    /\ exists(triple[1])
    /\ <<triple[1], triple[2]>> \notin corrupt
    /\ ~Raises(triple[1], triple[2])

----------------------------------------------------------------------------
(* A retry run between two ingestion runs *)

\* the records a retry run created: its metadata holds "retry": true
RetryRows == {x \in db.pdf_metadata : <<"retry", "true">> \in x.metadata}

\* the document name of the last record an ingestion run committed
Checkpoint ==
    LET rows == db.pdf_metadata \ RetryRows
    IN IF rows = {} THEN "None"
       ELSE (CHOOSE r \in rows : \A x \in rows : x.id <= r.id).pdf_filename

\* no name of the tree is URL-quoted: retry and ingestion store under the same keys
PlainNames == \A doc \in DocsOf(tree) : unquote(doc[2]) = doc[2]

\* the run has read its checkpoint and not yet opened an archive
JustStarted == pc = "walk" /\ ci = 1 /\ di = 0 /\ attempted = <<>>

\* C30: a retry run between an interrupted ingestion run and its resumption does not
\* change where ingestion resumes: the resumed run starts from the last record ingestion
\* committed, whatever records the retry run has inserted behind it, and at its end
\* every document the interrupted run had not committed is in the store (for trees in
\* which nothing fails and the two pipelines agree on the keys)
C30_RetryKeepsResumePoint ==
    (killed /\ HappyPath /\ PlainNames) =>
        /\ JustStarted => last_processed_pdf = Checkpoint
        /\ pc = "done" => \A doc \in DocsOf(tree) : Indexed(doc)

----------------------------------------------------------------------------
(* The resume marker and documents of the same name *)

\* the record get_last_entry reads: the one with the highest id
LastRow == CHOOSE r \in db.pdf_metadata : \A x \in db.pdf_metadata : x.id <= r.id

\* where the checkpointed document stands in the enumeration of the tree
CheckpointAt ==
    {k \in 1..Len(FlatTree) :
        StoreKey(FlatTree[k]) = <<LastRow.zip_path, LastRow.pdf_filename>>}

\* a document of the same name stands in another archive, before position k, and the
\* run has inspected it
SameNameEarlier(k) ==
    \E j \in 1..(k - 1) :
        /\ FlatTree[j][1] # FlatTree[k][1]
        /\ unquote(FlatTree[j][2]) = unquote(FlatTree[k][2])
        /\ FlatTree[j] \in Range(visited)

\* the run has committed nothing yet: the store is the one its checkpoint was read from
BeforeFirstFlush == pc = "walk" /\ flushed = <<>> /\ db.pdf_metadata # {}

\* C31: the resume point is the checkpointed document itself: when its name also occurs
\* in another archive that the resumed run inspects earlier, the marker is cleared only
\* at the checkpointed document, and no document up to it is extracted
C31_ResumeAtCheckpointedDocument ==
    BeforeFirstFlush =>
        \A k \in CheckpointAt :
            SameNameEarlier(k) =>
                /\ last_processed_pdf = "None" => FlatTree[k] \in Range(visited)
                /\ \A j \in 1..k : FlatTree[j] \notin Range(extracted)

----------------------------------------------------------------------------
(* A resume marker the run never meets *)

\* the ledger entries that name a document
DocumentEntries(ledger) == SelectSeq(ledger, LAMBDA e : e.pdf_filename # "")

\* a step of a run whose marker is pending before and after it
PendingStep ==
    /\ pc = "walk"
    /\ pc' \in {"walk", "done"}
    /\ last_processed_pdf # "None"
    /\ last_processed_pdf' # "None"

\* C32: a run whose resume marker is not met among the documents it inspects extracts
\* no document, commits nothing and writes no ledger entry for a document, and it ends
\* normally (pc = "done") unless it is terminated from outside (pc = "idle")
C32_MarkerNeverMet ==
    /\ []((pc \in {"walk", "done"} /\ last_processed_pdf # "None") =>
             /\ extracted = <<>>
             /\ flushed = <<>>
             /\ escaped = <<>>
             /\ batch = <<>>)
    /\ [][PendingStep =>
             /\ db' = db
             /\ DocumentEntries(pdf_error') = DocumentEntries(pdf_error)]_vars
    /\ ((pc = "walk" /\ last_processed_pdf # "None") ~> (pc = "done" \/ pc = "idle"))

\* a run inspected documents, met its marker at none of them and ended
C32_Witness ==
    /\ pc = "done"
    /\ last_processed_pdf # "None"
    /\ visited # <<>>
    /\ db.pdf_metadata # {}
    /\ ~killed

----------------------------------------------------------------------------
(* The accounting of a retry run *)

----------------------------------------------------------------------------
(* Calls on a manager that was never connected *)

GuardedOps == {"insert_batch", "insert_one", "pdf_exists"}

\* C34: insert_pdf_contents_batch, insert_pdf_content and pdf_exists called on a manager
\* whose connection has not been established fail with an error and leave the store
\* as it was
C34_RejectedBeforeSchemaInit ==
    /\ [](~conn /\ call.op \in GuardedOps =>
             /\ call.raised
             /\ ~call.ok
             /\ db = call.pre)
    /\ [][~conn /\ ~conn' /\ call'.op \in GuardedOps => db' = db]_vars

\* pdf_exists was called, after two inserts, on a manager that was never connected
C34_Witness ==
    /\ ~conn
    /\ call.op = "pdf_exists"
    /\ call.raised
    /\ now = 2
    /\ db = EmptyDb

----------------------------------------------------------------------------
(* The paging of search results in search.py, search_database *)

\* LIMIT 20 of the query
Limit == 20

\* results_per_page = 5
results_per_page == 5

\* total_pages counts the full pages only
TotalPagesFloor(n) == n \div results_per_page

\* line 241: (len(results) + results_per_page - 1) // results_per_page
TotalPages(n) == (n + results_per_page - 1) \div results_per_page

\* lines 244-249: show_results_page(page_num) prints results[i] under the number i + 1
\* for i in range(start_idx, end_idx); the numbers it prints, in order
show_results_page(res, page_num) ==
    LET start_idx == (page_num - 1) * results_per_page
        end_idx == IF start_idx + results_per_page < Len(res)
                   THEN start_idx + results_per_page ELSE Len(res)
    IN [i \in 1..(end_idx - start_idx) |-> start_idx + i]

\* what input(...).strip().lower() may give
NavChoices == {"q", "quit", "n", "p", "0", "1", "2", "3", "4", "5", "²", "d 1", "d", "x"}

\* str.isdigit(): true of the decimal digits and of digit characters such as '²'
isdigit(str) == str \in {"0", "1", "2", "3", "4", "5", "²"}

\* int(str): <<n>>, or <<>> for the ValueError that int('²') raises
int(str) ==
    CASE str = "0" -> <<0>>
      [] str = "1" -> <<1>>
      [] str = "2" -> <<2>>
      [] str = "3" -> <<3>>
      [] str = "4" -> <<4>>
      [] str = "5" -> <<5>>
      [] OTHER -> <<>>

\* lines 196-242 and 284: a query is read and executed; without rows the loop asks for
\* the next query, else the first page is shown
Query ==
    /\ nav = "query"
    /\ \E n \in 0..Limit :
          LET rows == [i \in 1..n |-> i]
          IN IF n = 0
             THEN UNCHANGED searchVars
             ELSE /\ results' = rows
                  /\ total_pages' = TotalPages(Len(rows))
                  /\ current_page' = 1
                  /\ shown' = show_results_page(rows, 1)
                  /\ nav' = "paging"
                  /\ nav_choice' = ""
    /\ UNCHANGED <<storeVars, walkVars, retryVars, textVars, rootVars>>

\* lines 286-328: one navigation command
Navigate ==
    /\ nav = "paging"
    /\ \E choice \in NavChoices :
          /\ nav_choice' = choice
          /\ IF choice = "q" \/ choice = "quit"
             THEN /\ nav' = "query"
                  /\ UNCHANGED <<current_page, shown>>
             ELSE IF choice = "n" /\ current_page < total_pages
             THEN /\ current_page' = current_page + 1
                  /\ shown' = show_results_page(results, current_page')
                  /\ UNCHANGED nav
             ELSE IF choice = "p" /\ current_page > 1
             THEN /\ current_page' = current_page - 1
                  /\ shown' = show_results_page(results, current_page')
                  /\ UNCHANGED nav
             ELSE IF isdigit(choice)
             THEN IF int(choice) = <<>>
                  THEN \* ValueError: caught by `except Exception` of the query loop
                       /\ nav' = "query"
                       /\ UNCHANGED <<current_page, shown>>
                  ELSE IF 1 <= int(choice)[1] /\ int(choice)[1] <= total_pages
                  THEN /\ current_page' = int(choice)[1]
                       /\ shown' = show_results_page(results, current_page')
                       /\ UNCHANGED nav
                  ELSE UNCHANGED <<current_page, shown, nav>>
             ELSE UNCHANGED <<current_page, shown, nav>>
    /\ UNCHANGED <<results, total_pages>>
    /\ UNCHANGED <<storeVars, walkVars, retryVars, textVars, rootVars>>

\* line 198: 'exit' ends the session
Exit ==
    /\ nav = "query"
    /\ nav' = "closed"
    /\ UNCHANGED <<results, total_pages, current_page, shown, nav_choice>>
    /\ UNCHANGED <<storeVars, walkVars, retryVars, textVars, rootVars>>

InitSearch ==
    /\ Standalone
    /\ InitTextVars
    /\ InitRootVars
    /\ results = <<>>
    /\ total_pages = 0
    /\ current_page = 0
    /\ shown = <<>>
    /\ nav = "query"
    /\ nav_choice = ""

NextSearch ==
    \/ Query
    \/ Navigate
    \/ Exit

SpecSearch == InitSearch /\ [][NextSearch]_vars

\* the pages on which rank i is shown
PagesOf(i) == {k \in 1..total_pages : i \in Range(show_results_page(results, k))}

\* C35: whatever navigation commands are given, the current page stays within
\* 1..total_pages and is the page on the screen, and the pages partition the result
\* list: every result is shown on exactly one page, and a page holds 1 to 5 results
C35_Paging ==
    nav = "paging" =>
        /\ current_page \in 1..total_pages
        /\ shown = show_results_page(results, current_page)
        /\ \A i \in 1..Len(results) : Cardinality(PagesOf(i)) = 1
        /\ \A k \in 1..total_pages :
              /\ Len(show_results_page(results, k)) \in 1..results_per_page
              /\ Range(show_results_page(results, k)) \subseteq 1..Len(results)

\* the last, partly filled page of three was reached by "next"
C35_Witness ==
    /\ nav = "paging"
    /\ Len(results) = 12
    /\ total_pages = 3
    /\ current_page = 3
    /\ nav_choice = "n"
    /\ shown = <<11, 12>>

----------------------------------------------------------------------------
(* The derivation of the root directory in retry_failed_pdfs.py, main.  A path *)
(* is its components and whether it is absolute: '/' and '' have no component. *)

\* most directories above an archive of the ledger
MaxDepth == 2

DirNames == {"r", "x"}

Dirs == UNION {[1..n -> DirNames] : n \in 0..MaxDepth}

ZipNames == {"a.zip", "b.zip"}

\* the zip_path values of a ledger: absolute or relative, as the ingestion run was given
\* its root
LedgerPaths == {[abs |-> a, parts |-> Append(d, z)] : a \in BOOLEAN, d \in Dirs, z \in ZipNames}

\* the archive paths of one or two triples
PathLists == {<<x>> : x \in LedgerPaths} \cup {<<x, y>> : x, y \in LedgerPaths}

\* the path '/'
FsRoot == [abs |-> TRUE, parts |-> <<>>]

Directories == {[abs |-> a, parts |-> d] : a \in BOOLEAN, d \in Dirs}

\* no directory holds libgen.scimag, or one does
MarkerPlaces == {{}} \cup {{d} : d \in Directories}

\* --root-dir as given on the command line
GivenRoot == [abs |-> TRUE, parts |-> <<"r">>]

\* os.path.commonpath(paths): <<the longest common sub-path>>, or <<>> for the
\* ValueError "Can't mix absolute and relative paths"
commonpath(ps) ==
    LET first == ps[1]
        common == {n \in 0..Len(first.parts) :
                      \A i \in 1..Len(ps) :
                          /\ Len(ps[i].parts) >= n
                          /\ SubSeq(ps[i].parts, 1, n) = SubSeq(first.parts, 1, n)}
        longest == CHOOSE n \in common : \A m \in common : m <= n
    IN IF \E i \in 1..Len(ps) : ps[i].abs # first.abs THEN <<>>
       ELSE <<[abs |-> first.abs, parts |-> SubSeq(first.parts, 1, longest)]>>

\* os.path.dirname(path): the path without its last component; '/' and '' are their
\* own dirname
dirname(path) ==
    IF path.parts = <<>> THEN path
    ELSE [path EXCEPT !.parts = SubSeq(path.parts, 1, Len(path.parts) - 1)]

\* os.path.exists(os.path.join(root_directory, 'libgen.scimag'))
HasMarker(path) == path \in marked

\* lines 183-188: root_directory = args.root_dir, else the common path of the archive
\* paths of failed_files; the ValueError of commonpath leaves main through `finally`
Derive ==
    /\ rc = "idle"
    /\ paths # <<>>
    /\ \E supplied \in BOOLEAN :
          IF supplied
          THEN /\ root_directory' = GivenRoot
               /\ rc' = "given"
          ELSE IF commonpath(paths) = <<>>
          THEN /\ rc' = "raised"
               /\ UNCHANGED root_directory
          ELSE /\ root_directory' = commonpath(paths)[1]
               /\ rc' = "ascend"
    /\ UNCHANGED <<paths, marked>>
    /\ UNCHANGED <<storeVars, walkVars, retryVars, textVars, searchVars>>

\* lines 190-194: one test of the loop condition and one pass of the loop
Ascend ==
    /\ rc = "ascend"
    /\ LET parent == dirname(root_directory)
       IN IF HasMarker(root_directory)
          THEN /\ rc' = "derived"
               /\ UNCHANGED root_directory
          ELSE IF parent = root_directory
          THEN /\ rc' = "derived"
               /\ UNCHANGED root_directory
          ELSE /\ root_directory' = parent
               /\ UNCHANGED rc
    /\ UNCHANGED <<paths, marked>>
    /\ UNCHANGED <<storeVars, walkVars, retryVars, textVars, searchVars>>

InitRoot ==
    /\ Standalone
    /\ InitTextVars
    /\ InitSearchVars
    /\ paths \in PathLists
    /\ marked \in MarkerPlaces
    /\ root_directory = EmptyPath
    /\ rc = "idle"

NextRoot ==
    \/ Derive
    \/ Ascend

SpecRoot == InitRoot /\ [][NextRoot]_vars

\* main() waits for nothing between the statements of the derivation
FairRoot == SpecRoot /\ WF_vars(NextRoot)

\* the derivation comes to an end: with a root directory, or with the error of commonpath
DerivationEnds == <>(rc \in {"given", "derived", "raised"})

\* C36: when no root directory is supplied, the ascent from the common path of the
\* archive paths terminates for every input, at a directory that holds the root marker
\* or at the filesystem root
C36_RootDerivationTerminates ==
    /\ <>(rc \in {"given", "derived"})
    /\ [](rc = "derived" => (HasMarker(root_directory) \/ root_directory = FsRoot))

====
